---- MODULE Spec2Model ----
(***************************************************************************)
(* SCFS (SplitFS / CatFS): the in-memory index built by the scan, the      *)
(* attribute resolver, the handle table, the read engine and the directory *)
(* protocol, as state machines over a backing mirror.                      *)
(*                                                                         *)
(* Byte strings (file names, link targets, file contents, the config JSON) *)
(* are sequences of byte values.  A path is the sequence of its            *)
(* components.  A mirror is a set of nodes, one per path.                  *)
(***************************************************************************)
EXTENDS Integers, Sequences, FiniteSets, TLC

VARIABLES
    mode,          \* "split" | "cat": which filesystem object is constructed
    mirror,        \* the backing directory tree (frozen while mounted)
    origin,        \* the mirror a split view was copied from ({} if none)
    config,        \* Config { blocksize }
    config_json,   \* SplitFS.config_json
    phase,         \* "start", "mounted", "panicked" (construction), "crashed" (session)
    panic_msg,     \* the message of the panic that ended construction
    file_db,       \* the Files table: a set of rows, ino is the primary key
    file_handles,  \* the handle table: fh -> handle
    next_fh,       \* CatFS.next_fh
    clock,         \* the last value time::precise_time_ns() returned
    kernel_fds,    \* the kernel's open files: the (fh, ino) pairs of its opens
    issued,        \* the handle ids the opens of non-config inodes returned, in order
    nopen,         \* how many opens were requested so far
    request,       \* the request dispatched last
    reply,         \* its reply (none while its read worker runs)
    workers,       \* read workers spawned and not yet finished
    cli,           \* the process running Cli::run (NoCli: the library alone)
    answers        \* per read request of a concurrent session: the replies sent

vars == <<mode, mirror, origin, config, config_json, phase, panic_msg, file_db,
          file_handles, next_fh, clock, kernel_fds, issued, nopen, request,
          reply, workers, cli, answers>>

----------------------------------------------------------------------------
(* Bounds of the model *)

MaxSize == 3
MaxBlocksize == 2
MaxTick == 4
MaxOffset == 4
MaxReadSize == 4
MaxCap == 4
MaxCookie == 5
MaxOpens == 2
ClockStart == 100

----------------------------------------------------------------------------
(* Program constants (lib.rs) *)

INO_OUTSIDE == 0
INO_ROOT == 1
INO_CONFIG == 2
INO_FIRST_FREE == 10
CONFIG_DEFAULT_BLOCKSIZE == 2097152

\* ".scfs_config"
CONFIG_FILE_NAME == <<46, 115, 99, 102, 115, 95, 99, 111, 110, 102, 105, 103>>

MSG_CONFIG_NOT_FOUND == "SCFS config file not found"
MSG_CONFIG_INVALID == "SCFS config file contains invalid JSON"

----------------------------------------------------------------------------
(* Byte strings *)

Min(a, b) == IF a < b THEN a ELSE b
Max(a, b) == IF a > b THEN a ELSE b

Last(s) == s[Len(s)]
Front(s) == SubSeq(s, 1, Len(s) - 1)

\* s without its first n elements (Rust: &s[n..], iter.skip(n))
Drop(s, n) == SubSeq(s, n + 1, Len(s))
\* the first n elements of s, or all of s when it is shorter (iter.take(n))
Take(s, n) == SubSeq(s, 1, Min(n, Len(s)))

IsPrefix(p, s) == Len(p) <= Len(s) /\ SubSeq(s, 1, Len(p)) = p

\* memcmp order of two byte strings (SQLite's BLOB comparison)
RECURSIVE BytesLess(_, _)
BytesLess(a, b) ==
    IF b = <<>> THEN FALSE
    ELSE IF a = <<>> THEN TRUE
    ELSE IF a[1] # b[1] THEN a[1] < b[1]
    ELSE BytesLess(Tail(a), Tail(b))

IsDigit(c) == c >= 48 /\ c <= 57

\* The decimal digits of n (Display for u64)
RECURSIVE ToDecimal(_)
ToDecimal(n) ==
    IF n < 10 THEN <<48 + n>>
    ELSE ToDecimal(n \div 10) \o <<48 + (n % 10)>>

\* format!("{:0w}", n): zero-padded to at least w digits
ZeroPad(digits, w) ==
    IF Len(digits) >= w THEN digits
    ELSE [i \in 1..(w - Len(digits)) |-> 48] \o digits

RECURSIVE DigitsValue(_)
DigitsValue(s) ==
    IF s = <<>> THEN 0
    ELSE DigitsValue(Front(s)) * 10 + (Last(s) - 48)

Err == [ok |-> FALSE, val |-> 0]
Ok(v) == [ok |-> TRUE, val |-> v]

\* str::parse::<u64>(): an optional '+', then one or more digits.  (The
\* overflow error for values of 2^64 and more is outside the model: every
\* number of the model is far below it.)
ParseU64(s) ==
    LET body == IF s # <<>> /\ s[1] = 43 THEN Tail(s) ELSE s
    IN  IF body = <<>> THEN Err
        ELSE IF \E i \in 1..Len(body) : ~IsDigit(body[i]) THEN Err
        ELSE Ok(DigitsValue(body))

\* OsStr::to_str(): Some for valid UTF-8.  Bytes below 0x80 are one-byte
\* characters; a byte 0x80..0xC1 or 0xF5..0xFF can start no character.  The
\* names and targets of the model hold no multi-byte character.
IsUtf8(s) == \A i \in 1..Len(s) : s[i] < 128

----------------------------------------------------------------------------
(* Config and its serialization (serde_json) *)

\* {"blocksize":
JSON_KEY == <<123, 34, 98, 108, 111, 99, 107, 115, 105, 122, 101, 34, 58>>
\* }
JSON_CLOSE == <<125>>

\* ToJson writing the default blocksize whatever the Config holds
ToJson_Default(cfg) == JSON_KEY \o ToDecimal(CONFIG_DEFAULT_BLOCKSIZE) \o JSON_CLOSE

\* serde_json::to_string(&Config { blocksize })
ToJson(cfg) == JSON_KEY \o ToDecimal(cfg.blocksize) \o JSON_CLOSE

\* serde_json::from_str::<Config>, for documents without white space and
\* without other members: an object with the one member blocksize, a JSON
\* number that is a u64 (digits, no sign, no leading zero).
FromJson(s) ==
    IF ~(IsPrefix(JSON_KEY, s) /\ Len(s) > Len(JSON_KEY) + 1 /\ Last(s) = 125)
    THEN Err
    ELSE LET num == SubSeq(s, Len(JSON_KEY) + 1, Len(s) - 1)
         IN  IF num[1] = 43 \/ (num[1] = 48 /\ Len(num) > 1) THEN Err
             ELSE LET r == ParseU64(num)
                  IN  IF r.ok THEN Ok([blocksize |-> r.val]) ELSE Err

----------------------------------------------------------------------------
(* The backing file system *)

NoNode == [path |-> <<>>, kind |-> "none", data |-> <<>>, target |-> <<>>,
           entries |-> <<>>]

DirNode(p, names) ==
    [path |-> p, kind |-> "dir", data |-> <<>>, target |-> <<>>, entries |-> names]
FileNode(p, bytes) ==
    [path |-> p, kind |-> "file", data |-> bytes, target |-> <<>>, entries |-> <<>>]
LinkNode(p, tgt) ==
    [path |-> p, kind |-> "symlink", data |-> <<>>, target |-> tgt, entries |-> <<>>]
\* a fifo, socket or device node
OtherNode(p) ==
    [path |-> p, kind |-> "other", data |-> <<>>, target |-> <<>>, entries |-> <<>>]

Exists(fs, p) == \E n \in fs : n.path = p
NodeAt(fs, p) == IF Exists(fs, p) THEN CHOOSE n \in fs : n.path = p ELSE NoNode

\* Path::file_name, Path::join, Path::parent
FileName(p) == Last(p)
Join(p, name) == Append(p, name)
Parent(p) == Front(p)

\* fs::read_dir(path): the entries' paths in the order the system yields them
ReadDir(fs, p) ==
    LET n == NodeAt(fs, p) IN [i \in 1..Len(n.entries) |-> Join(p, n.entries[i])]

----------------------------------------------------------------------------
(* File metadata and attributes (lib.rs) *)

\* convert_filetype taking every type that is no directory and no file for a
\* symlink
convert_filetype_Any(kind) ==
    CASE kind = "dir" -> "Directory"
      [] kind = "file" -> "RegularFile"
      [] OTHER -> "Symlink"

\* convert_filetype: None for anything but a directory, a file, a symlink
convert_filetype(kind) ==
    CASE kind = "dir" -> "Directory"
      [] kind = "file" -> "RegularFile"
      [] kind = "symlink" -> "Symlink"
      [] OTHER -> "None"

\* st_size of a node: a file's length, a link's target length, a directory's
\* on-disk size
MetaSize(n) ==
    CASE n.kind = "file" -> Len(n.data)
      [] n.kind = "symlink" -> Len(n.target)
      [] OTHER -> 4096

\* st_blocks (512-byte units, allocated in 4 KiB blocks)
MetaBlocks(n) ==
    CASE n.kind = "file" -> IF Len(n.data) = 0 THEN 0 ELSE 8
      [] n.kind = "dir" -> 8
      [] OTHER -> 0

\* st_mode as u16: the type bits and the permission bits
MetaMode(n) ==
    CASE n.kind = "file" -> 33188
      [] n.kind = "dir" -> 16877
      [] n.kind = "symlink" -> 41471
      [] OTHER -> 4516

PanicAttr == [ino |-> 0, size |-> 0, blocks |-> 0, kind |-> "panic", perm |-> 0]

\* convert_metadata_to_attr(fs::symlink_metadata(path).unwrap(), Some(ino)):
\* panics when the path does not exist or its type is not supported
convert_metadata_to_attr(fs, p, ino) ==
    LET n == NodeAt(fs, p)
    IN  IF n.kind = "none" \/ convert_filetype(n.kind) = "None" THEN PanicAttr
        ELSE [ino |-> ino, size |-> MetaSize(n), blocks |-> MetaBlocks(n),
              kind |-> convert_filetype(n.kind), perm |-> MetaMode(n)]

----------------------------------------------------------------------------
(* The Files table and its statements (lib.rs) *)

FileInfo(ino, parent_ino, path, part, vdir, symlink) ==
    [ino |-> ino, parent_ino |-> parent_ino, path |-> path,
     file_name |-> FileName(path), part |-> part, vdir |-> vdir,
     symlink |-> symlink]

\* STMT_INSERT fails when the primary key ino or the UNIQUE path is taken
InsertFails(db, row) == \E r \in db : r.ino = row.ino \/ r.path = row.path

HasIno(db, ino) == \E r \in db : r.ino = ino

\* STMT_QUERY_BY_INO, first row
RowByIno(db, ino) == CHOOSE r \in db : r.ino = ino

\* Index order of idx_parent_ino_file_name within one parent: by file_name
\* (BLOB order), then by rowid (= ino)
\* RowBefore in the order of insertion (rowid)
RowBefore_Rowid(r, s) == r.ino < s.ino

RowBefore(r, s) ==
    \/ BytesLess(r.file_name, s.file_name)
    \/ r.file_name = s.file_name /\ r.ino < s.ino

\* STMT_QUERY_BY_PARENT_INO with OFFSET 0: the rows of one parent, in the
\* order the index scan yields them
ChildRows(db, parent_ino) ==
    LET kids == {r \in db : r.parent_ino = parent_ino}
        pos(r) == Cardinality({s \in kids : RowBefore(s, r)}) + 1
    IN  [i \in 1..Cardinality(kids) |-> CHOOSE r \in kids : pos(r) = i]

\* STMT_QUERY_BY_PARENT_INO: LIMIT -1 OFFSET off
QueryByParentIno(db, parent_ino, off) == Drop(ChildRows(db, parent_ino), off)

\* STMT_QUERY_BY_PARENT_INO_AND_FILENAME: the matching rows, index order
QueryByParentInoAndFilename(db, parent_ino, name) ==
    LET all == ChildRows(db, parent_ino)
    IN  SelectSeq(all, LAMBDA r : r.file_name = name)

----------------------------------------------------------------------------
(* The scan: SplitFS::populate and CatFS::populate *)

\* "scfs."
SCFS_PREFIX == <<115, 99, 102, 115, 46>>

\* format!("scfs.{:010}", i)
ChunkFileName(i) == SCFS_PREFIX \o ZeroPad(ToDecimal(i), 10)

\* SplitBlocks with the quotient rounded down
SplitBlocks_Floor(size, blocksize) == Max(1, size \div blocksize)

\* 1.max(f64::ceil(size as f64 / blocksize as f64) as u64); the quotient is
\* exact for the sizes of the model (below 2^53) and blocksize >= 1
SplitBlocks(size, blocksize) == Max(1, (size + blocksize - 1) \div blocksize)

\* .execute(params![...]).unwrap(): a failed INSERT panics
InsertRow(st, row) ==
    IF st.panic \/ InsertFails(st.db, row) THEN [st EXCEPT !.panic = TRUE]
    ELSE [st EXCEPT !.db = @ \cup {row}]

\* The chunk loop of SplitFS::populate: for i in 0..blocks
RECURSIVE SplitInsertChunks(_, _, _, _, _)
SplitInsertChunks(st, path, ino, i, blocks) ==
    IF i >= blocks \/ st.panic THEN st
    ELSE SplitInsertChunks(
             InsertRow(st, FileInfo(ino + i + 1, ino, Join(path, ChunkFileName(i)),
                                    i + 1, FALSE, FALSE)),
             path, ino, i + 1, blocks)

\* SplitFS::populate.  st.ticks are the advances of the clock between the
\* calls of time::precise_time_ns(), one per call.  symlink_metadata() of a
\* path that does not exist is an Err, and its unwrap a panic.
RECURSIVE SplitPopulate(_, _, _, _, _)
RECURSIVE SplitPopulateEntries(_, _, _, _, _)
SplitPopulate(st, fs, path, cfg, parent_ino) ==
    LET meta == NodeAt(fs, path)
        kind == convert_filetype(meta.kind)
        isroot == parent_ino = INO_OUTSIDE
        now == IF isroot THEN st.clock ELSE st.clock + Head(st.ticks)
        ino == IF isroot THEN INO_ROOT ELSE now
        st1 == [st EXCEPT !.clock = now,
                          !.ticks = IF isroot THEN @ ELSE Tail(@)]
        st2 == InsertRow(st1, FileInfo(ino, parent_ino, path, 0,
                                       kind = "RegularFile", kind = "Symlink"))
    IN  IF st.panic THEN st
        ELSE IF meta.kind = "none" THEN [st EXCEPT !.panic = TRUE]
        ELSE IF kind = "None" THEN st
        ELSE CASE kind = "RegularFile" ->
                    SplitInsertChunks(st2, path, ino, 0,
                                      SplitBlocks(MetaSize(meta), cfg.blocksize))
               [] kind = "Directory" ->
                    SplitPopulateEntries(st2, fs, ReadDir(fs, path), cfg, ino)
               [] OTHER -> st2
SplitPopulateEntries(st, fs, entries, cfg, ino) ==
    IF entries = <<>> THEN st
    ELSE SplitPopulateEntries(SplitPopulate(st, fs, Head(entries), cfg, ino),
                              fs, Tail(entries), cfg, ino)

\* path.file_name().unwrap().to_str().unwrap()[5..].parse::<u64>().unwrap() + 1
\* Err stands for the panic of any of the unwraps or of the slice
CatPart(name) ==
    IF ~IsUtf8(name) \/ Len(name) < 5 THEN Err
    ELSE LET r == ParseU64(Drop(name, 5))
         IN  IF r.ok THEN Ok(r.val + 1) ELSE Err

\* CatFS::populate; st.next_ino is the next free inode
RECURSIVE CatPopulate(_, _, _, _)
RECURSIVE CatPopulateEntries(_, _, _, _)
\* CatPopulate without the skip of the entries named .scfs_config
CatPopulate_KeepConfig(st, fs, path, parent_ino) ==
    LET meta == NodeAt(fs, path)
        kind == convert_filetype(meta.kind)
        isroot == parent_ino = INO_OUTSIDE
        ino == IF isroot THEN INO_ROOT ELSE st.next_ino
        st1 == [st EXCEPT !.next_ino = IF isroot THEN @ ELSE @ + 1]
        part == IF kind = "RegularFile" THEN CatPart(FileName(path)) ELSE Ok(0)
        st2 == IF part.ok
               THEN InsertRow(st1, FileInfo(ino, parent_ino, path, part.val,
                                            FALSE, kind = "Symlink"))
               ELSE [st1 EXCEPT !.panic = TRUE]
    IN  IF st.panic THEN st
        ELSE IF meta.kind = "none" THEN [st EXCEPT !.panic = TRUE]
        ELSE IF kind = "None" THEN st
        ELSE IF kind = "Directory"
             THEN CatPopulateEntries(st2, fs, ReadDir(fs, path), ino)
             ELSE st2

CatPopulate(st, fs, path, parent_ino) ==
    LET meta == NodeAt(fs, path)
        kind == convert_filetype(meta.kind)
        isroot == parent_ino = INO_OUTSIDE
        ino == IF isroot THEN INO_ROOT ELSE st.next_ino
        st1 == [st EXCEPT !.next_ino = IF isroot THEN @ ELSE @ + 1]
        part == IF kind = "RegularFile" THEN CatPart(FileName(path)) ELSE Ok(0)
        st2 == IF part.ok
               THEN InsertRow(st1, FileInfo(ino, parent_ino, path, part.val,
                                            FALSE, kind = "Symlink"))
               ELSE [st1 EXCEPT !.panic = TRUE]
    IN  IF st.panic THEN st
        ELSE IF meta.kind = "none" THEN [st EXCEPT !.panic = TRUE]
        ELSE IF kind = "None" \/ FileName(path) = CONFIG_FILE_NAME THEN st
        ELSE IF kind = "Directory"
             THEN CatPopulateEntries(st2, fs, ReadDir(fs, path), ino)
             ELSE st2
CatPopulateEntries(st, fs, entries, ino) ==
    IF entries = <<>> THEN st
    ELSE CatPopulateEntries(CatPopulate(st, fs, Head(entries), ino),
                            fs, Tail(entries), ino)

\* CatSweep marking every inode that is the parent of any row
CatSweep_AnyChild(db) ==
    {[r EXCEPT !.vdir = IF \E c \in db : c.parent_ino = r.ino
                        THEN TRUE ELSE @] : r \in db}

\* The sweep of CatFS::new:
\* UPDATE Files SET vdir = 1 WHERE ino IN (SELECT parent_ino FROM Files WHERE part != 0)
CatSweep(db) ==
    {[r EXCEPT !.vdir = IF \E c \in db : c.part # 0 /\ c.parent_ino = r.ino
                        THEN TRUE ELSE @] : r \in db}

\* fs::read_to_string(path): Err when the path is no readable file or its
\* content is not UTF-8
ReadToString(fs, p) ==
    LET n == NodeAt(fs, p)
    IN  IF n.kind = "file" /\ IsUtf8(n.data) THEN Ok(n.data) ELSE Err

----------------------------------------------------------------------------
(* Replies.  A panic of the dispatcher (an unwrap of None or Err, an      *)
(* unreachable!()) is the reply kind "panic": the session thread ends.    *)

ReplyOf(kind, val) == [kind |-> kind, val |-> val]
PanicReply == ReplyOf("panic", 0)
ENOENT == "ENOENT"
EIO == "EIO"
NoReply == ReplyOf("none", 0)

\* The reply r carries the bytes / the error code
IsData(r, bytes) == r.kind = "data" /\ r.val = bytes
IsError(r, code) == r.kind = "error" /\ r.val = code

Request(op, ino, parent, name, fh, offset, size) ==
    [op |-> op, ino |-> ino, parent |-> parent, name |-> name, fh |-> fh,
     offset |-> offset, size |-> size]
NoRequest == Request("none", 0, 0, <<>>, 0, 0, 0)

----------------------------------------------------------------------------
(* Attribute resolver *)

\* SplitFS::get_attr_from_file_info.  For a chunk row the u64 subtraction
\* attr.size - (part - 1) * blocksize overflows when the file is shorter than
\* the chunk's start; the rows the scan inserts over a mirror that does not
\* change never are (part <= max(1, ceil(size / blocksize))).
SplitAttr(fs, db, cfg, row) ==
    IF row.symlink THEN convert_metadata_to_attr(fs, row.path, row.ino)
    ELSE IF row.part = 0
    THEN LET attr == convert_metadata_to_attr(fs, row.path, row.ino)
         IN  IF attr.kind = "panic" THEN attr
             ELSE [attr EXCEPT !.kind = "Directory", !.blocks = 0, !.perm = 493]
    ELSE IF ~HasIno(db, row.parent_ino) THEN PanicAttr
    ELSE LET attr == convert_metadata_to_attr(
                         fs, RowByIno(db, row.parent_ino).path, row.ino)
             before == (row.part - 1) * cfg.blocksize
         IN  IF attr.kind = "panic" \/ before > attr.size THEN PanicAttr
             ELSE [attr EXCEPT !.size = Min(cfg.blocksize, attr.size - before)]

\* SplitFS::get_config_attr
SplitConfigAttr(fs, db, cfg, json) ==
    IF ~HasIno(db, INO_ROOT) THEN PanicAttr
    ELSE LET attr == SplitAttr(fs, db, cfg, RowByIno(db, INO_ROOT))
         IN  IF attr.kind = "panic" THEN attr
             ELSE [attr EXCEPT !.ino = INO_CONFIG, !.size = Len(json),
                               !.blocks = 1, !.kind = "RegularFile"]

RECURSIVE SumSeq(_)
SumSeq(s) == IF s = <<>> THEN 0 ELSE Head(s) + SumSeq(Tail(s))

\* CatAttr reporting the size and the blocks of the first part alone
CatAttr_FirstPart(fs, db, row) ==
    IF row.vdir
    THEN LET parts == ChildRows(db, row.ino)
         IN  IF Len(parts) = 0 THEN PanicAttr
             ELSE LET attr == convert_metadata_to_attr(fs, parts[1].path, parts[1].ino)
                  IN  IF attr.kind = "panic" THEN attr
                      ELSE [attr EXCEPT !.ino = row.ino]
    ELSE convert_metadata_to_attr(fs, row.path, row.ino)

\* CatFS::get_attr_from_file_info
CatAttr(fs, db, row) ==
    IF row.vdir
    THEN LET parts == ChildRows(db, row.ino)
             attrs == [i \in 1..Len(parts) |->
                          convert_metadata_to_attr(fs, parts[i].path, parts[i].ino)]
         IN  IF Len(attrs) = 0 \/ \E i \in 1..Len(attrs) : attrs[i].kind = "panic"
             THEN PanicAttr
             ELSE [attrs[1] EXCEPT
                      !.ino = row.ino,
                      !.blocks = SumSeq([i \in 1..Len(attrs) |-> attrs[i].blocks]),
                      !.size = SumSeq([i \in 1..Len(attrs) |-> attrs[i].size])]
    ELSE convert_metadata_to_attr(fs, row.path, row.ino)

\* Shared::get_attr_from_file_info, by the filesystem's mode
AttrOf(m, fs, db, cfg, row) ==
    IF m = "split" THEN SplitAttr(fs, db, cfg, row) ELSE CatAttr(fs, db, row)

AttrReply(kind, attr) ==
    IF attr.kind = "panic" THEN PanicReply ELSE ReplyOf(kind, attr)

----------------------------------------------------------------------------
(* lookup, getattr, readlink *)

\* SharedLookup taking the first row of the parent whatever the name
SharedLookup_AnyName(m, fs, db, cfg, parent, name) ==
    LET found == ChildRows(db, parent)
    IN  IF found = <<>> THEN ReplyOf("error", ENOENT)
        ELSE AttrReply("entry", AttrOf(m, fs, db, cfg, found[1]))

\* Shared::lookup
SharedLookup(m, fs, db, cfg, parent, name) ==
    LET found == QueryByParentInoAndFilename(db, parent, name)
    IN  IF found = <<>> THEN ReplyOf("error", ENOENT)
        ELSE AttrReply("entry", AttrOf(m, fs, db, cfg, found[1]))

\* Shared::getattr.  get_file_info_from_ino unwraps the first row of its
\* query, so an inode without a row panics
SharedGetattr(m, fs, db, cfg, ino) ==
    IF ~HasIno(db, ino) THEN PanicReply
    ELSE AttrReply("attr", AttrOf(m, fs, db, cfg, RowByIno(db, ino)))

\* fs::read_link(path): Err unless the path is a symbolic link
ReadLink(fs, p) ==
    LET n == NodeAt(fs, p) IN IF n.kind = "symlink" THEN Ok(n.target) ELSE Err

\* Shared::readlink
SharedReadlink(fs, db, ino) ==
    IF ~HasIno(db, ino) THEN PanicReply
    ELSE LET target == ReadLink(fs, RowByIno(db, ino).path)
         IN  IF ~target.ok \/ ~IsUtf8(target.val) THEN PanicReply
             ELSE ReplyOf("data", target.val)

\* SplitFS::lookup / CatFS::lookup
Lookup(m, fs, db, cfg, json, parent, name) ==
    IF m = "split" /\ parent = INO_ROOT /\ name = CONFIG_FILE_NAME
    THEN AttrReply("entry", SplitConfigAttr(fs, db, cfg, json))
    ELSE SharedLookup(m, fs, db, cfg, parent, name)

\* SplitFS::getattr / CatFS::getattr
Getattr(m, fs, db, cfg, json, ino) ==
    IF m = "split" /\ ino = INO_CONFIG
    THEN AttrReply("attr", SplitConfigAttr(fs, db, cfg, json))
    ELSE SharedGetattr(m, fs, db, cfg, ino)

----------------------------------------------------------------------------
(* readdir *)

DOT == <<46>>
DOTDOT == <<46, 46>>

DirEntry(ino, cookie, kind, name) ==
    [ino |-> ino, cookie |-> cookie, kind |-> kind, name |-> name]

\* The kind readdir gives a row
SplitEntryKind(item) ==
    IF item.symlink THEN "Symlink"
    ELSE IF item.part > 0 THEN "RegularFile" ELSE "Directory"
CatEntryKind(item) ==
    IF item.symlink THEN "Symlink"
    ELSE IF item.vdir THEN "RegularFile" ELSE "Directory"

\* DotDotIno without the case of the root
DotDotIno_Parent(file_info) == file_info.parent_ino

DotDotIno(file_info) ==
    IF file_info.parent_ino = INO_OUTSIDE THEN file_info.ino
    ELSE file_info.parent_ino

\* The entries SplitFS::readdir adds by hand, in order
SplitSynthetic(file_info, offset) ==
    (IF offset < 1 THEN <<DirEntry(file_info.ino, 1, "Directory", DOT)>> ELSE <<>>)
    \o (IF offset < 2
        THEN <<DirEntry(DotDotIno(file_info), 2, "Directory", DOTDOT)>> ELSE <<>>)
    \o (IF offset < 3 /\ file_info.ino = INO_ROOT
        THEN <<DirEntry(INO_CONFIG, 3, "RegularFile", CONFIG_FILE_NAME)>>
        ELSE <<>>)

\* The entries CatFS::readdir adds by hand, in order
CatSynthetic(file_info, offset) ==
    IF offset < 2
    THEN (IF offset = 0 THEN <<DirEntry(file_info.ino, 1, "Directory", DOT)>>
          ELSE <<>>)
         \o <<DirEntry(DotDotIno(file_info), 2, "Directory", DOTDOT)>>
    ELSE <<>>

\* SplitItems counting two hand-added entries in every directory
SplitItems_NoConfigShift(db, file_info, offset) ==
    LET additional_offset == Len(SplitSynthetic(file_info, offset))
        items == QueryByParentIno(db, file_info.ino, Max(0, offset - 2))
    IN  [off \in 1..Len(items) |->
            DirEntry(items[off].ino, offset + additional_offset + (off - 1) + 1,
                     SplitEntryKind(items[off]), FileName(items[off].path))]

\* The rows SplitFS::readdir adds, with their cookies
SplitItems(db, file_info, offset) ==
    LET additional_offset_max == 2 + (IF file_info.ino = 1 THEN 1 ELSE 0)
        additional_offset == Len(SplitSynthetic(file_info, offset))
        items == QueryByParentIno(db, file_info.ino,
                                  Max(0, offset - additional_offset_max))
    IN  [off \in 1..Len(items) |->
            DirEntry(items[off].ino, offset + additional_offset + (off - 1) + 1,
                     SplitEntryKind(items[off]), FileName(items[off].path))]

\* The rows CatFS::readdir adds, with their cookies
CatItems(db, file_info, offset) ==
    LET items == QueryByParentIno(db, file_info.ino, Max(0, offset - 2))
        first == IF offset = 0 THEN 2 ELSE IF offset = 1 THEN 1 ELSE 0
    IN  [off \in 1..Len(items) |->
            DirEntry(items[off].ino, offset + first + (off - 1) + 1,
                     CatEntryKind(items[off]), FileName(items[off].path))]

\* SplitFS::readdir / CatFS::readdir into a reply buffer that holds cap
\* entries: ReplyDirectory::add returns true, without adding, when the
\* buffer is full.  A full buffer at a hand-added entry is unreachable!().
Readdir(m, db, ino, offset, cap) ==
    IF ~HasIno(db, ino) THEN PanicReply
    ELSE LET file_info == RowByIno(db, ino)
             synthetic == IF m = "split" THEN SplitSynthetic(file_info, offset)
                          ELSE CatSynthetic(file_info, offset)
             items == IF m = "split" THEN SplitItems(db, file_info, offset)
                      ELSE CatItems(db, file_info, offset)
         IN  IF Len(synthetic) > cap THEN PanicReply
             ELSE ReplyOf("dir", synthetic \o Take(items, cap - Len(synthetic)))

----------------------------------------------------------------------------
(* open, read, release *)

FileHandle(file, start, end) == [file |-> file, start |-> start, end |-> end]

Outcome(r, handles) == [reply |-> r, handles |-> handles]

\* HashMap::insert and HashMap::remove on the handle table
MapInsert(map, k, v) == [x \in DOMAIN map \cup {k} |-> IF x = k THEN v ELSE map[x]]
MapRemove(map, k) == [x \in DOMAIN map \ {k} |-> map[x]]

\* SplitFS::open with fh the value time::precise_time_ns() returns: the
\* outcomes the build can produce.  For a row with part = 0 the u64
\* subtraction part - 1 overflows: a panic with overflow checks, else the
\* wrapped values (start = 2^64 - blocksize, written as its residue
\* -blocksize, and end = 0).
SplitOpen(db, cfg, handles, ino, fh) ==
    IF ino = INO_CONFIG THEN {Outcome(ReplyOf("opened", 0), handles)}
    ELSE IF ~HasIno(db, ino) THEN {Outcome(PanicReply, handles)}
    ELSE LET file_info == RowByIno(db, ino)
         IN  IF ~HasIno(db, file_info.parent_ino)
             THEN {Outcome(PanicReply, handles)}
             ELSE LET file == RowByIno(db, file_info.parent_ino).path
                      start == (file_info.part - 1) * cfg.blocksize
                      end == start + cfg.blocksize
                      opened == Outcome(ReplyOf("opened", fh),
                                        MapInsert(handles, fh,
                                                  FileHandle(file, start, end)))
                  IN  IF file_info.part = 0
                      THEN {Outcome(PanicReply, handles), opened}
                      ELSE {opened}

\* CatFS::open with fh = self.next_fh
CatOpen(db, handles, ino, fh) ==
    LET files == ChildRows(db, ino)
        fhs == [i \in 1..Len(files) |-> FileHandle(files[i].path, 0, 0)]
    IN  Outcome(ReplyOf("opened", fh), MapInsert(handles, fh, fhs))

\* What the dispatcher does with a read: it replies itself (reply), panics,
\* or spawns a worker that owns the values it needs (spawn)
Replied(r) == [reply |-> r, spawn |-> <<>>]
Spawned(w) == [reply |-> NoReply, spawn |-> <<w>>]

\* SplitRead without the answer for CONFIG
SplitRead_ViaHandle(handles, json, req) ==
    IF req.fh \notin DOMAIN handles THEN Replied(PanicReply)
    ELSE LET handle == handles[req.fh]
             offset == Min(req.offset, handle.end - handle.start)
             size == Min(req.size, handle.end - handle.start - offset)
         IN  Spawned([req |-> req, files |-> <<handle.file>>,
                      start |-> handle.start, offset |-> offset, size |-> size,
                      blocksize |-> 0])

\* SplitFS::read
SplitRead(handles, json, req) ==
    IF req.ino = INO_CONFIG THEN Replied(ReplyOf("data", json))
    ELSE IF req.fh \notin DOMAIN handles THEN Replied(PanicReply)
    ELSE LET handle == handles[req.fh]
             offset == Min(req.offset, handle.end - handle.start)
             size == Min(req.size, handle.end - handle.start - offset)
         IN  Spawned([req |-> req, files |-> <<handle.file>>,
                      start |-> handle.start, offset |-> offset, size |-> size,
                      blocksize |-> 0])

\* CatFS::read
CatRead(fs, db, cfg, handles, req) ==
    IF ~HasIno(db, req.ino) THEN Replied(PanicReply)
    ELSE LET attr == CatAttr(fs, db, RowByIno(db, req.ino))
             file_size == attr.size
             offset == Min(req.offset, file_size)
             size == Min(req.size, file_size - offset)
         IN  IF attr.kind = "panic" THEN Replied(PanicReply)
             ELSE IF size = 0 THEN Replied(ReplyOf("data", <<>>))
             ELSE IF cfg.blocksize = 0 THEN Replied(PanicReply)
             ELSE LET part_start == offset \div cfg.blocksize
                      part_end == (offset + size - 1) \div cfg.blocksize
                  IN  IF req.fh \notin DOMAIN handles
                         \/ part_end + 1 > Len(handles[req.fh])
                      THEN Replied(PanicReply)
                      ELSE Spawned([req |-> req,
                                    files |-> [i \in 1..(part_end - part_start + 1) |->
                                                 handles[req.fh][part_start + i].file],
                                    start |-> 0, offset |-> offset, size |-> size,
                                    blocksize |-> cfg.blocksize])

\* File::open(path) and reading it to its end: Err when the path does not
\* exist or is no regular file
FileBytes(fs, p) ==
    LET n == NodeAt(fs, p) IN IF n.kind = "file" THEN Ok(n.data) ELSE Err

\* A reply dropped unsent (the worker panicked) is answered with EIO by
\* the reply object's drop
DroppedReply == ReplyOf("error", EIO)

\* SplitWorker seeking to the offset alone
SplitWorker_NoStart(fs, w) ==
    LET file == FileBytes(fs, w.files[1])
    IN  IF ~file.ok THEN DroppedReply
        ELSE ReplyOf("data", Take(Drop(file.val, w.offset), w.size))

\* SplitWorker looking the handle up in the table when it runs
SplitWorker_Live(fs, w) ==
    IF w.req.fh \notin DOMAIN file_handles THEN DroppedReply
    ELSE LET handle == file_handles[w.req.fh]
             file == FileBytes(fs, handle.file)
             pos == handle.start + w.offset
         IN  IF ~file.ok \/ pos < 0 THEN DroppedReply
             ELSE ReplyOf("data", Take(Drop(file.val, pos), w.size))

\* The worker of SplitFS::read: seek to start + offset, take(size)
SplitWorker(fs, w) ==
    LET file == FileBytes(fs, w.files[1])
        pos == w.start + w.offset
    IN  IF ~file.ok \/ pos < 0 THEN DroppedReply
        ELSE ReplyOf("data", Take(Drop(file.val, pos), w.size))

\* The worker of CatFS::read: the files are opened one after the other, as
\* the bytes are drawn, until size bytes are there
RECURSIVE CatCollect(_, _, _, _, _)
CatCollect(fs, w, part, bytes, part_start) ==
    IF part > Len(w.files) \/ Len(bytes) >= w.size THEN Ok(Take(bytes, w.size))
    ELSE LET file == FileBytes(fs, w.files[part])
             seek == IF part = part_start THEN w.offset % w.blocksize ELSE 0
         IN  IF ~file.ok THEN Err
             ELSE CatCollect(fs, w, part + 1, bytes \o Drop(file.val, seek),
                             part_start)

\* CatWorker without the seek into the first file
CatWorker_FromStart(fs, w) ==
    LET bytes == CatCollect(fs, [w EXCEPT !.offset = 0], 1, <<>>, 1)
    IN  IF bytes.ok THEN ReplyOf("data", bytes.val) ELSE DroppedReply

CatWorker(fs, w) ==
    LET bytes == CatCollect(fs, w, 1, <<>>, 1)
    IN  IF bytes.ok THEN ReplyOf("data", bytes.val) ELSE DroppedReply

\* A release that drops every handle
Release_Clear(m, handles, ino, fh) == [x \in {} |-> handles[x]]

\* SplitFS::release / CatFS::release
Release(m, handles, ino, fh) ==
    IF m = "split" /\ ino = INO_CONFIG THEN handles ELSE MapRemove(handles, fh)

----------------------------------------------------------------------------
(* Construction: SplitFS::new and CatFS::new *)

\* The mirror's own path
MIRROR == << <<109>> >>

NoConfig == [blocksize |-> 0]

\* SplitFS::new(mirror, config, _): the index, or a panic of the scan
SplitNew(fs, cfg, now, ticks) ==
    SplitPopulate([db |-> {}, clock |-> now, ticks |-> ticks, panic |-> FALSE],
                  fs, MIRROR, cfg, INO_OUTSIDE)

\* CatNew scanning the mirror before it looks at the config file
CatNew_ScanFirst(fs) ==
    LET text == ReadToString(fs, Join(MIRROR, CONFIG_FILE_NAME))
        cfg == IF text.ok THEN FromJson(text.val) ELSE Err
        st == CatPopulate([db |-> {}, next_ino |-> INO_FIRST_FREE, panic |-> FALSE],
                          fs, MIRROR, INO_OUTSIDE)
    IN  IF st.panic
        THEN [panic |-> "unwrap", db |-> st.db, config |-> NoConfig]
        ELSE IF ~text.ok
        THEN [panic |-> MSG_CONFIG_NOT_FOUND, db |-> st.db, config |-> NoConfig]
        ELSE IF ~cfg.ok
        THEN [panic |-> MSG_CONFIG_INVALID, db |-> st.db, config |-> NoConfig]
        ELSE [panic |-> "", db |-> CatSweep(st.db), config |-> cfg.val]

\* CatFS::new(mirror, _): the config, then the scan, then the sweep
CatNew(fs) ==
    LET text == ReadToString(fs, Join(MIRROR, CONFIG_FILE_NAME))
        cfg == IF text.ok THEN FromJson(text.val) ELSE Err
        st == CatPopulate([db |-> {}, next_ino |-> INO_FIRST_FREE, panic |-> FALSE],
                          fs, MIRROR, INO_OUTSIDE)
    IN  IF ~text.ok
        THEN [panic |-> MSG_CONFIG_NOT_FOUND, db |-> {}, config |-> NoConfig]
        ELSE IF ~cfg.ok
        THEN [panic |-> MSG_CONFIG_INVALID, db |-> {}, config |-> NoConfig]
        ELSE IF st.panic
        THEN [panic |-> "unwrap", db |-> st.db, config |-> NoConfig]
        ELSE [panic |-> "", db |-> CatSweep(st.db), config |-> cfg.val]

----------------------------------------------------------------------------
(* The mirrors of the model *)

NameA == <<97>>
NameB == <<98>>
NameD == <<100>>
NameL == <<108>>
NameP == <<112>>
NameMissing == <<122, 122>>

\* Link targets: an existing entry, a missing one, one that is not UTF-8
TargetA == <<97>>
TargetBroken == <<97, 47, 98, 47, 99>>
TargetRaw == <<97, 255>>

\* s bytes, different at every position and for every k
Bytes(k, s) == [i \in 1..s |-> 16 * k + i]

Sizes == 0..MaxSize
Blocksizes == 1..MaxBlocksize

\* Mirrors served by SplitFS
SplitEmpty == {DirNode(MIRROR, <<>>)}
SplitOne(s) ==
    {DirNode(MIRROR, <<NameA>>), FileNode(Join(MIRROR, NameA), Bytes(1, s))}
SplitTree(s, afirst) ==
    {DirNode(MIRROR, IF afirst THEN <<NameA, NameD>> ELSE <<NameD, NameA>>),
     FileNode(Join(MIRROR, NameA), Bytes(1, s)),
     DirNode(Join(MIRROR, NameD), <<NameB>>),
     FileNode(Join(Join(MIRROR, NameD), NameB), Bytes(2, 1))}
SplitLinks(target) ==
    {DirNode(MIRROR, <<NameL, NameP, NameD>>),
     LinkNode(Join(MIRROR, NameL), target),
     OtherNode(Join(MIRROR, NameP)),
     DirNode(Join(MIRROR, NameD), <<>>)}
SplitRootConfig ==
    {DirNode(MIRROR, <<CONFIG_FILE_NAME>>),
     FileNode(Join(MIRROR, CONFIG_FILE_NAME), Bytes(1, 1))}
SplitNestedConfig ==
    {DirNode(MIRROR, <<NameD>>),
     DirNode(Join(MIRROR, NameD), <<CONFIG_FILE_NAME>>),
     FileNode(Join(Join(MIRROR, NameD), CONFIG_FILE_NAME), Bytes(2, 2))}

SplitMirrors ==
    {SplitEmpty, SplitRootConfig, SplitNestedConfig}
    \cup {SplitOne(s) : s \in Sizes}
    \cup {SplitTree(MaxSize, afirst) : afirst \in BOOLEAN}
    \cup {SplitLinks(t) : t \in {TargetA, TargetBroken, TargetRaw}}

\* SplitFS is constructed with a blocksize >= 1 (the command line rejects 0)
SplitInputs ==
    {[mirror |-> m, config |-> [blocksize |-> b]] :
        m \in SplitMirrors, b \in Blocksizes}
    \cup {[mirror |-> SplitOne(MaxSize),
           config |-> [blocksize |-> CONFIG_DEFAULT_BLOCKSIZE]]}

\* Mirrors served by CatFS: chunk directories as SplitFS presents them
ChunkCount(bytes, b) == Max(1, (Len(bytes) + b - 1) \div b)
ChunkBytes(bytes, b, i) == SubSeq(bytes, i * b + 1, Min((i + 1) * b, Len(bytes)))
ChunkNames(n, reversed) ==
    [i \in 1..n |-> ChunkFileName(IF reversed THEN n - i ELSE i - 1)]
ChunkDir(p, bytes, b, reversed) ==
    {DirNode(p, ChunkNames(ChunkCount(bytes, b), reversed))}
    \cup {FileNode(Join(p, ChunkFileName(i)), ChunkBytes(bytes, b, i)) :
             i \in 0..(ChunkCount(bytes, b) - 1)}
ConfigNode(text) == FileNode(Join(MIRROR, CONFIG_FILE_NAME), text)

\* {}
JSON_EMPTY == <<123, 125>>

CatEmpty(text) == {DirNode(MIRROR, <<CONFIG_FILE_NAME>>), ConfigNode(text)}
CatNoConfig == {DirNode(MIRROR, <<NameA>>)} \cup ChunkDir(Join(MIRROR, NameA), Bytes(1, 1), 1, FALSE)
CatConfigIsDir ==
    {DirNode(MIRROR, <<CONFIG_FILE_NAME>>),
     DirNode(Join(MIRROR, CONFIG_FILE_NAME), <<>>)}
CatOne(s, b, reversed) ==
    {DirNode(MIRROR, <<NameA, CONFIG_FILE_NAME>>), ConfigNode(ToJson([blocksize |-> b]))}
    \cup ChunkDir(Join(MIRROR, NameA), Bytes(1, s), b, reversed)
CatTree(s, b) ==
    {DirNode(MIRROR, <<CONFIG_FILE_NAME, NameD, NameA>>),
     ConfigNode(ToJson([blocksize |-> b])),
     DirNode(Join(MIRROR, NameD), <<NameB>>)}
    \cup ChunkDir(Join(Join(MIRROR, NameD), NameB), Bytes(2, 1), b, FALSE)
    \cup ChunkDir(Join(MIRROR, NameA), Bytes(1, s), b, FALSE)
CatLinks(target, b) ==
    {DirNode(MIRROR, <<NameL, CONFIG_FILE_NAME, NameP, NameD>>),
     ConfigNode(ToJson([blocksize |-> b])),
     LinkNode(Join(MIRROR, NameL), target),
     OtherNode(Join(MIRROR, NameP)),
     DirNode(Join(MIRROR, NameD), <<CONFIG_FILE_NAME>>),
     LinkNode(Join(Join(MIRROR, NameD), CONFIG_FILE_NAME), TargetA)}

\* A chunk directory whose first chunk is shorter than the blocksize 2
CatRagged ==
    {DirNode(MIRROR, <<CONFIG_FILE_NAME, NameA>>),
     ConfigNode(ToJson([blocksize |-> 2])),
     DirNode(Join(MIRROR, NameA), ChunkNames(2, FALSE)),
     FileNode(Join(Join(MIRROR, NameA), ChunkFileName(0)), SubSeq(Bytes(1, 3), 1, 1)),
     FileNode(Join(Join(MIRROR, NameA), ChunkFileName(1)), SubSeq(Bytes(1, 3), 2, 3))}

CatMirrors ==
    {CatNoConfig, CatConfigIsDir, CatEmpty(JSON_EMPTY), CatEmpty(<<>>),
     CatEmpty(ToJson([blocksize |-> CONFIG_DEFAULT_BLOCKSIZE]))}
    \cup {CatOne(s, b, r) : s \in Sizes, b \in Blocksizes, r \in BOOLEAN}
    \cup {CatTree(MaxSize, b) : b \in Blocksizes}
    \cup {CatLinks(t, 1) : t \in {TargetA, TargetBroken, TargetRaw}}

----------------------------------------------------------------------------
(* A copy of the mounted view, entry for entry (cp -a mountpoint copy)     *)

FailNode == [path |-> <<>>, kind |-> "failed", data |-> <<>>, target |-> <<>>,
             entries |-> <<>>]

\* The names of a listing without "." and "..", each once
RECURSIVE ListedNames(_)
ListedNames(entries) ==
    IF entries = <<>> THEN <<>>
    ELSE LET rest == ListedNames(Front(entries))
             name == Last(entries).name
         IN  IF name \in {DOT, DOTDOT} \/ \E i \in 1..Len(rest) : rest[i] = name
             THEN rest ELSE Append(rest, name)

\* The bytes of a regular file of the split view: open, read its reported
\* size from offset 0, release
ReadWhole(fs, db, cfg, json, ino, size) ==
    LET fh == 1
        opened == SplitOpen(db, cfg, <<>>, ino, fh)
        out == CHOOSE o \in opened : TRUE
        got == SplitRead(out.handles, json, Request("read", ino, 0, <<>>, fh, 0, size))
        answer == IF got.spawn = <<>> THEN got.reply ELSE SplitWorker(fs, got.spawn[1])
    IN  IF out.reply.kind = "opened" /\ answer.kind = "data"
        THEN Ok(Take(answer.val, size)) ELSE Err

RECURSIVE CopyDir(_, _, _, _, _, _)
RECURSIVE CopyNames(_, _, _, _, _, _, _)
CopyDir(fs, db, cfg, json, ino, dest) ==
    LET listing == Readdir("split", db, ino, 0, Cardinality(db) + 3)
    IN  IF listing.kind # "dir" THEN {FailNode}
        ELSE {DirNode(dest, ListedNames(listing.val))}
             \cup CopyNames(fs, db, cfg, json, ino, dest, ListedNames(listing.val))
CopyNames(fs, db, cfg, json, ino, dest, names) ==
    IF names = <<>> THEN {}
    ELSE LET found == Lookup("split", fs, db, cfg, json, ino, Head(names))
             p == Join(dest, Head(names))
             this ==
                 IF found.kind # "entry" THEN {FailNode}
                 ELSE CASE found.val.kind = "Directory" ->
                             CopyDir(fs, db, cfg, json, found.val.ino, p)
                        [] found.val.kind = "RegularFile" ->
                             LET bytes == ReadWhole(fs, db, cfg, json, found.val.ino,
                                                    found.val.size)
                             IN  IF bytes.ok THEN {FileNode(p, bytes.val)}
                                 ELSE {FailNode}
                        [] OTHER ->
                             LET target == SharedReadlink(fs, db, found.val.ino)
                             IN  IF target.kind = "data" THEN {LinkNode(p, target.val)}
                                 ELSE {FailNode}
         IN  this \cup CopyNames(fs, db, cfg, json, ino, dest, Tail(names))

----------------------------------------------------------------------------
(* The state machine *)

\* No command line: the filesystem objects are used as a library
NoCli == [stage |-> "none"]

InitRest ==
    /\ origin = {}
    /\ config_json = <<>>
    /\ phase = "start"
    /\ panic_msg = ""
    /\ file_db = {}
    /\ file_handles = <<>>
    /\ next_fh = 0
    /\ clock = ClockStart
    /\ kernel_fds = {}
    /\ issued = <<>>
    /\ nopen = 0
    /\ request = NoRequest
    /\ reply = NoReply
    /\ workers = <<>>
    /\ cli = NoCli
    /\ answers = <<>>

InitSplit ==
    /\ mode = "split"
    /\ \E inp \in SplitInputs : mirror = inp.mirror /\ config = inp.config
    /\ InitRest

InitCat ==
    /\ mode = "cat"
    /\ mirror \in CatMirrors
    /\ config = NoConfig
    /\ InitRest

Init == InitSplit \/ InitCat

\* The advances of the clock between two readings of it: the clock is
\* monotonic, two readings of it may be equal
Ticks == {0, 1, MaxTick}

\* SplitFS::new
SplitMount ==
    /\ phase = "start" /\ mode = "split"
    /\ \E ticks \in [1..(Cardinality(mirror) - 1) -> Ticks] :
          LET st == SplitNew(mirror, config, clock, ticks)
          IN  /\ phase' = IF st.panic THEN "panicked" ELSE "mounted"
              /\ panic_msg' = IF st.panic THEN "unwrap" ELSE ""
              /\ file_db' = st.db
              /\ clock' = st.clock
              /\ config_json' = IF st.panic THEN <<>> ELSE ToJson(config)
    /\ UNCHANGED <<cli, answers, issued, mode, mirror, origin, config, file_handles, next_fh,
                   kernel_fds, nopen, request, reply, workers>>

\* CatFS::new
CatMount ==
    /\ phase = "start" /\ mode = "cat"
    /\ LET new == CatNew(mirror)
       IN  /\ phase' = IF new.panic = "" THEN "mounted" ELSE "panicked"
           /\ panic_msg' = new.panic
           /\ file_db' = new.db
           /\ config' = new.config
    /\ next_fh' = 0
    /\ UNCHANGED <<cli, answers, issued, mode, mirror, origin, config_json, file_handles, clock,
                   kernel_fds, nopen, request, reply, workers>>

\* The dispatcher answers a request itself; a panic ends the session
Serve(req, rep) ==
    /\ request' = req
    /\ reply' = rep
    /\ phase' = IF rep.kind = "panic" THEN "crashed" ELSE phase

Inos == {r.ino : r \in file_db}
Names == {r.file_name : r \in file_db} \cup {CONFIG_FILE_NAME, NameMissing}

\* The inodes the filesystem presents as directories and as regular files
DirInos ==
    {r.ino : r \in {x \in file_db :
        /\ ~x.symlink
        /\ x.part = 0
        /\ mode = "cat" => ~x.vdir}}
FileInos ==
    IF mode = "split" THEN {r.ino : r \in {x \in file_db : x.part > 0}} \cup {INO_CONFIG}
    ELSE {r.ino : r \in {x \in file_db : x.vdir}}

LookupReq ==
    /\ phase = "mounted"
    /\ \E parent \in DirInos, name \in Names :
          Serve(Request("lookup", 0, parent, name, 0, 0, 0),
                Lookup(mode, mirror, file_db, config, config_json, parent, name))
    /\ UNCHANGED <<cli, answers, issued, mode, mirror, origin, config, config_json, panic_msg, file_db,
                   file_handles, next_fh, clock, kernel_fds, nopen, workers>>

GetattrReq ==
    /\ phase = "mounted"
    /\ \E ino \in Inos \cup (IF mode = "split" THEN {INO_CONFIG} ELSE {}) :
          Serve(Request("getattr", ino, 0, <<>>, 0, 0, 0),
                Getattr(mode, mirror, file_db, config, config_json, ino))
    /\ UNCHANGED <<cli, answers, issued, mode, mirror, origin, config, config_json, panic_msg, file_db,
                   file_handles, next_fh, clock, kernel_fds, nopen, workers>>

ReadlinkReq ==
    /\ phase = "mounted"
    /\ \E r \in file_db :
          /\ r.symlink
          /\ Serve(Request("readlink", r.ino, 0, <<>>, 0, 0, 0),
                   SharedReadlink(mirror, file_db, r.ino))
    /\ UNCHANGED <<cli, answers, issued, mode, mirror, origin, config, config_json, panic_msg, file_db,
                   file_handles, next_fh, clock, kernel_fds, nopen, workers>>

\* The reply buffer of a readdir holds at least the three entries added by
\* hand (the kernel asks for a page at least); size is its capacity
ReaddirReq ==
    /\ phase = "mounted"
    /\ \E ino \in DirInos, offset \in 0..MaxCookie, cap \in 3..MaxCap :
          Serve(Request("readdir", ino, 0, <<>>, 0, offset, cap),
                Readdir(mode, file_db, ino, offset, cap))
    /\ UNCHANGED <<cli, answers, issued, mode, mirror, origin, config, config_json, panic_msg, file_db,
                   file_handles, next_fh, clock, kernel_fds, nopen, workers>>

\* An open of the inode ino
OpenStep(ino) ==
    /\ nopen' = nopen + 1
    /\ IF mode = "split"
       THEN \E tick \in Ticks :
               LET now == IF ino = INO_CONFIG THEN clock ELSE clock + tick
               IN  \E out \in SplitOpen(file_db, config, file_handles, ino, now) :
                      /\ Serve(Request("open", ino, 0, <<>>, 0, 0, 0), out.reply)
                      /\ file_handles' = out.handles
                      /\ clock' = now
                      /\ kernel_fds' = IF out.reply.kind = "opened"
                                       THEN kernel_fds \cup {<<out.reply.val, ino>>}
                                       ELSE kernel_fds
                      /\ issued' = IF out.reply.kind = "opened" /\ ino # INO_CONFIG
                                   THEN Append(issued, out.reply.val)
                                   ELSE issued
                      /\ next_fh' = next_fh
       ELSE LET out == CatOpen(file_db, file_handles, ino, next_fh)
            IN  /\ Serve(Request("open", ino, 0, <<>>, 0, 0, 0), out.reply)
                /\ file_handles' = out.handles
                /\ next_fh' = next_fh + 1
                /\ kernel_fds' = kernel_fds \cup {<<out.reply.val, ino>>}
                /\ issued' = Append(issued, out.reply.val)
                /\ clock' = clock
    /\ UNCHANGED <<cli, answers, mode, mirror, origin, config, config_json, panic_msg,
                   file_db, workers>>

\* The first open of the session
OpenReq ==
    /\ phase = "mounted"
    /\ nopen = 0
    /\ \E ino \in FileInos : OpenStep(ino)

\* The sizes of the reads: small ones and, for the config file, its whole
\* reported size
ReadSizes(ino) ==
    (0..MaxReadSize)
    \cup (IF mode = "split" /\ ino = INO_CONFIG THEN {Len(config_json)} ELSE {})

\* A read through a handle the kernel holds, once the read before it is
\* answered
ReadReq ==
    /\ phase = "mounted"
    /\ workers = <<>>
    /\ \E fd \in kernel_fds, offset \in 0..MaxOffset :
       \E size \in ReadSizes(fd[2]) :
          LET req == Request("read", fd[2], 0, <<>>, fd[1], offset, size)
              out == IF mode = "split" THEN SplitRead(file_handles, config_json, req)
                     ELSE CatRead(mirror, file_db, config, file_handles, req)
          IN  /\ workers' = workers \o out.spawn
              /\ Serve(req, out.reply)
    /\ UNCHANGED <<cli, answers, issued, mode, mirror, origin, config, config_json, panic_msg, file_db,
                   file_handles, next_fh, clock, kernel_fds, nopen>>

\* A read worker runs to its end and replies
WorkerDone ==
    /\ \E i \in 1..Len(workers) :
          /\ request' = workers[i].req
          /\ reply' = IF mode = "split" THEN SplitWorker(mirror, workers[i])
                      ELSE CatWorker(mirror, workers[i])
          /\ workers' = SubSeq(workers, 1, i - 1) \o SubSeq(workers, i + 1, Len(workers))
    /\ UNCHANGED <<cli, answers, issued, mode, mirror, origin, config, config_json, phase, panic_msg,
                   file_db, file_handles, next_fh, clock, kernel_fds, nopen>>

ReleaseReq ==
    /\ phase = "mounted"
    /\ \E fd \in kernel_fds :
          /\ Serve(Request("release", fd[2], 0, <<>>, fd[1], 0, 0), ReplyOf("ok", 0))
          /\ file_handles' = Release(mode, file_handles, fd[2], fd[1])
          /\ kernel_fds' = kernel_fds \ {fd}
    /\ UNCHANGED <<cli, answers, issued, mode, mirror, origin, config, config_json, panic_msg, file_db,
                   next_fh, clock, nopen, workers>>

\* The mounted split view is copied into a fresh directory, and that
\* directory becomes the mirror of a CatFS
CopyView ==
    /\ phase = "mounted" /\ mode = "split" /\ origin = {}
    /\ kernel_fds = {} /\ workers = <<>>
    /\ LET copy == CopyDir(mirror, file_db, config, config_json, INO_ROOT, MIRROR)
       IN  /\ FailNode \notin copy
           /\ mirror' = copy
    /\ origin' = mirror
    /\ mode' = "cat"
    /\ phase' = "start"
    /\ file_db' = {}
    /\ config' = NoConfig
    /\ config_json' = <<>>
    /\ request' = NoRequest
    /\ reply' = NoReply
    /\ UNCHANGED <<cli, answers, panic_msg, file_handles, next_fh, clock, kernel_fds, issued, nopen,
                   workers>>

\* Metadata requests against a mounted filesystem
Next ==
    \/ SplitMount
    \/ CatMount
    \/ LookupReq
    \/ GetattrReq
    \/ ReadlinkReq
    \/ ReaddirReq

Spec == Init /\ [][Next]_vars

\* Reads through one open handle
SplitIOInputs ==
    {[mirror |-> SplitOne(s), config |-> [blocksize |-> b]] :
        s \in Sizes, b \in Blocksizes}
    \cup {[mirror |-> SplitOne(MaxSize),
           config |-> [blocksize |-> CONFIG_DEFAULT_BLOCKSIZE]]}
CatIOMirrors ==
    {CatOne(s, b, r) : s \in Sizes, b \in Blocksizes, r \in BOOLEAN}
    \cup {CatTree(MaxSize, b) : b \in Blocksizes}
    \cup {CatRagged}

InitIO ==
    /\ \/ /\ mode = "split"
          /\ \E inp \in SplitIOInputs : mirror = inp.mirror /\ config = inp.config
       \/ /\ mode = "cat"
          /\ mirror \in CatIOMirrors
          /\ config = NoConfig
    /\ InitRest

NextIO ==
    \/ SplitMount
    \/ CatMount
    \/ OpenReq
    \/ ReadReq
    \/ WorkerDone
    \/ ReleaseReq

SpecIO == InitIO /\ [][NextIO]_vars

\* Split, copy, cat
NextRoundTrip ==
    \/ SplitMount
    \/ CopyView
    \/ CatMount

SpecRoundTrip == InitSplit /\ [][NextRoundTrip]_vars

----------------------------------------------------------------------------
(* Round trip: split, copy, cat *)

\* A path of the mirror, relative to the mirror
RelPath(p) == Drop(p, Len(MIRROR))

\* The kernel's path walk over a CatFS: one lookup per component
RECURSIVE CatWalk(_, _, _, _, _)
CatWalk(fs, db, cfg, ino, rel) ==
    LET found == Lookup("cat", fs, db, cfg, <<>>, ino, Head(rel))
    IN  IF Len(rel) = 1 \/ found.kind # "entry" THEN found
        ELSE CatWalk(fs, db, cfg, found.val.ino, Tail(rel))

\* open of a CatFS inode, then one read of size bytes from offset 0
CatReadAll(fs, db, cfg, ino, size) ==
    LET out == CatOpen(db, <<>>, ino, 0)
        got == CatRead(fs, db, cfg, out.handles,
                       Request("read", ino, 0, <<>>, 0, 0, size))
    IN  IF got.spawn = <<>> THEN got.reply ELSE CatWorker(fs, got.spawn[1])

\* The regular file f of the origin is a regular file of the mounted CatFS,
\* at the same relative path, with the same bytes
Restored(f) ==
    LET found == CatWalk(mirror, file_db, config, INO_ROOT, RelPath(f.path))
    IN  /\ found.kind = "entry"
        /\ found.val.kind = "RegularFile"
        /\ found.val.size = Len(f.data)
        /\ IsData(CatReadAll(mirror, file_db, config, found.val.ino, Len(f.data) + 1),
                  f.data)

RoundTripDone == mode = "cat" /\ origin # {} /\ phase # "start"

\* C1: once the SplitFS view of a mirror M is copied entry for entry and
\* CatFS is constructed over the copy, CatFS is mounted and every regular
\* file of M is a regular file at the same relative path with exactly its
\* bytes (empty files too).
C1_RoundTrip ==
    RoundTripDone =>
        /\ phase = "mounted"
        /\ \A f \in origin : f.kind = "file" => Restored(f)

\* The same for the regular files on whose path no component is named
\* .scfs_config
C1_RoundTripOtherNames ==
    RoundTripDone =>
        /\ phase = "mounted"
        /\ \A f \in origin :
              (/\ f.kind = "file"
               /\ \A i \in 1..Len(f.path) : f.path[i] # CONFIG_FILE_NAME)
              => Restored(f)

\* A round trip over a mirror with a regular file of several chunks
C1_Witness ==
    /\ RoundTripDone
    /\ \E f \in origin : f.kind = "file" /\ Len(f.data) > config.blocksize
                          /\ Restored(f)

----------------------------------------------------------------------------
(* Chunk shape *)

MountedSplit == mode = "split" /\ phase = "mounted"
MountedCat == mode = "cat" /\ phase = "mounted"

\* max(1, ceil(s / b)) in integers
ExpectedChunks(s, b) == IF s = 0 THEN 1 ELSE ((s - 1) \div b) + 1

\* The size of chunk part of n chunks of a file of s bytes
ExpectedChunkSize(s, b, part, n) ==
    IF part < n THEN b
    ELSE IF s = 0 THEN 0
    ELSE IF s % b = 0 THEN b ELSE s % b

\* The chunk rows of the regular file f of the mirror
ChunkRowsOf(f) ==
    {c \in file_db : \E r \in file_db :
        r.path = f.path /\ r.part = 0 /\ c.parent_ino = r.ino}

ChunkShape(f) ==
    LET s == Len(f.data)
        n == ExpectedChunks(s, config.blocksize)
        chunks == ChunkRowsOf(f)
    IN  /\ Cardinality(chunks) = n
        /\ {c.part : c \in chunks} = 1..n
        /\ \A c \in chunks :
              LET got == Getattr(mode, mirror, file_db, config, config_json, c.ino)
              IN  /\ got.kind = "attr"
                  /\ got.val.size = ExpectedChunkSize(s, config.blocksize, c.part, n)

\* C2: in a mounted SplitFS every regular file of size s has exactly
\* max(1, ceil(s/B)) chunk rows, with the parts 1..N, and getattr reports
\* the size B for every chunk but the last and s mod B for the last (B when
\* B divides s > 0, and 0 when s = 0).
C2_ChunkShape ==
    MountedSplit => \A f \in mirror : f.kind = "file" => ChunkShape(f)

\* getattr answered for the short last chunk of a file of several chunks
C2_Witness ==
    /\ MountedSplit
    /\ request.op = "getattr"
    /\ reply.kind = "attr"
    /\ \E f \in mirror, c \in file_db :
          /\ f.kind = "file"
          /\ c \in ChunkRowsOf(f)
          /\ c.ino = request.ino
          /\ c.part > 1
          /\ c.part = ExpectedChunks(Len(f.data), config.blocksize)
          /\ Len(f.data) % config.blocksize # 0
          /\ reply.val.size = Len(f.data) % config.blocksize

----------------------------------------------------------------------------
(* Reads *)

\* The concatenation of the byte strings of a sequence
RECURSIVE Concat(_)
Concat(ss) == IF ss = <<>> THEN <<>> ELSE Head(ss) \o Concat(Tail(ss))

\* bytes[lo : hi] (half open, zero based; empty when hi <= lo)
Slice(bytes, lo, hi) == SubSeq(bytes, lo + 1, Min(hi, Len(bytes)))

\* The chunk directory at p holds the chunks 0..n-1 and nothing else, and
\* every chunk but the last has exactly b bytes
WellChunked(fs, p, b) ==
    LET d == NodeAt(fs, p)
        n == Len(d.entries)
    IN  /\ d.kind = "dir"
        /\ n >= 1
        /\ {d.entries[i] : i \in 1..n} = {ChunkFileName(i) : i \in 0..(n - 1)}
        /\ \A i \in 0..(n - 1) :
              LET c == NodeAt(fs, Join(p, ChunkFileName(i)))
              IN  /\ c.kind = "file"
                  /\ i < n - 1 => Len(c.data) = b

\* The bytes of the chunks of the chunk directory at p, in part order
ChunksConcat(fs, p) ==
    LET n == Len(NodeAt(fs, p).entries)
    IN  Concat([i \in 1..n |-> NodeAt(fs, Join(p, ChunkFileName(i - 1))).data])

ReadAnswered(m) ==
    /\ mode = m /\ phase = "mounted"
    /\ request.op = "read"
    /\ reply.kind # "none"

\* C3: in CatFS a read(offset, size) through a handle of a concatenated file
\* whose chunks are all B bytes long, but possibly the last, returns exactly
\* concat(chunks)[offset : min(offset + size, total)]; that is nothing when
\* the range starts at or beyond the end.
C3_CatRead ==
    (/\ ReadAnswered("cat")
     /\ WellChunked(mirror, RowByIno(file_db, request.ino).path, config.blocksize))
    => LET all == ChunksConcat(mirror, RowByIno(file_db, request.ino).path)
       IN  IsData(reply, Slice(all, request.offset, request.offset + request.size))

\* A read answered with the bytes of several chunks, not from the start of
\* the file
C3_Witness ==
    /\ ReadAnswered("cat")
    /\ WellChunked(mirror, RowByIno(file_db, request.ino).path, config.blocksize)
    /\ reply.kind = "data"
    /\ request.offset > 0
    /\ Len(reply.val) > config.blocksize

\* The bytes of the regular file a chunk row belongs to
BackingBytes(row) == NodeAt(mirror, RowByIno(file_db, row.parent_ino).path).data

\* The whole content of a chunk: open, one read of blocksize bytes from 0
ChunkContent(row) ==
    LET out == CHOOSE o \in SplitOpen(file_db, config, <<>>, row.ino, 1) : TRUE
        got == SplitRead(out.handles, config_json,
                         Request("read", row.ino, 0, <<>>, 1, 0, config.blocksize))
    IN  SplitWorker(mirror, got.spawn[1]).val

\* C4: in SplitFS a read at offset o of size n through a handle of the chunk
\* with part p of a file with the bytes F returns exactly
\* F[(p-1)*B + min(o, B) : min((p-1)*B + min(o + n, B), s)], so never a
\* byte outside the chunk, and the whole contents of the chunks 1..N, in
\* part order, are F.
C4_SplitRead ==
    /\ (ReadAnswered("split") /\ request.ino # INO_CONFIG)
       => LET row == RowByIno(file_db, request.ino)
              base == (row.part - 1) * config.blocksize
          IN  IsData(reply,
                  Slice(BackingBytes(row),
                        base + Min(request.offset, config.blocksize),
                        base + Min(request.offset + request.size, config.blocksize)))
    /\ MountedSplit
       => \A f \in mirror : f.kind = "file" =>
             LET n == Cardinality(ChunkRowsOf(f))
             IN  Concat([p \in 1..n |->
                     ChunkContent(CHOOSE c \in ChunkRowsOf(f) : c.part = p)]) = f.data

\* A read inside a chunk that is not the last of its file, asking for more
\* than the chunk holds and cut at the chunk's end
C4_Witness ==
    /\ ReadAnswered("split") /\ request.ino # INO_CONFIG
    /\ \E c \in file_db :
          c.parent_ino = RowByIno(file_db, request.ino).parent_ino
          /\ c.part > RowByIno(file_db, request.ino).part
    /\ request.offset > 0
    /\ request.offset + request.size > config.blocksize
    /\ reply.kind = "data"
    /\ Len(reply.val) = config.blocksize - request.offset
    /\ Len(reply.val) > 0

\* C5: in SplitFS the content of .scfs_config, read from offset 0 up to its
\* reported size, is the serialization of the Config the filesystem was
\* constructed with: parsing it yields that Config, the default one or a
\* custom one.
C5_ConfigFidelity ==
    (/\ ReadAnswered("split")
     /\ request.ino = INO_CONFIG
     /\ request.offset = 0
     /\ request.size = SplitConfigAttr(mirror, file_db, config, config_json).size)
    => /\ reply.kind = "data"
       /\ Len(reply.val) = request.size
       /\ FromJson(reply.val) = Ok(config)

\* The config file of a SplitFS with the default blocksize, read whole
C5_Witness ==
    /\ ReadAnswered("split")
    /\ request.ino = INO_CONFIG
    /\ request.offset = 0
    /\ request.size = SplitConfigAttr(mirror, file_db, config, config_json).size
    /\ config.blocksize = CONFIG_DEFAULT_BLOCKSIZE
    /\ FromJson(reply.val) = Ok(config)

----------------------------------------------------------------------------
(* Directory listings *)

\* The listing of a directory from offset 0 into a buffer that holds it all
FullListing(ino) == Readdir(mode, file_db, ino, 0, Cardinality(file_db) + 3).val

EntryNames(listing) == [i \in 1..Len(listing) |-> listing[i].name]

ReaddirAnswered ==
    /\ phase = "mounted"
    /\ request.op = "readdir"
    /\ reply.kind # "none"

\* The number of entries before the database children of a directory
HandAdded(ino) == IF mode = "split" /\ ino = INO_ROOT THEN 3 ELSE 2

\* C6: the listing of a directory from offset 0 is the full listing, the
\* entry at position i of it carries the cookie i (so the database child at
\* child position j carries H + j + 1), every database child is in it once,
\* and a readdir from any offset answers exactly the entries that follow
\* that cookie in the full listing, same order, same cookies, as many as
\* the buffer holds: a resumed listing neither skips nor repeats an entry.
C6_ReaddirCookies ==
    ReaddirAnswered =>
        LET full == FullListing(request.ino)
            kids == ChildRows(file_db, request.ino)
            H == HandAdded(request.ino)
        IN  /\ reply.kind = "dir"
            /\ reply.val = Take(Drop(full, request.offset), request.size)
            /\ Len(full) = H + Len(kids)
            /\ \A i \in 1..Len(full) : full[i].cookie = i
            /\ \A j \in 1..Len(kids) : full[H + j].ino = kids[j].ino

\* A listing resumed behind the first database child of a directory with
\* several children, answered with the children that follow it
C6_Witness ==
    /\ ReaddirAnswered
    /\ reply.kind = "dir"
    /\ request.offset = HandAdded(request.ino) + 1
    /\ Len(reply.val) >= 1
    /\ reply.val[1].cookie = request.offset + 1
    /\ reply.val[1].ino = ChildRows(file_db, request.ino)[2].ino

ConfigEntries(listing) ==
    {i \in 1..Len(listing) : listing[i].name = CONFIG_FILE_NAME}

\* C7: in a mounted SplitFS the full listing of the root has exactly one
\* entry named .scfs_config, for an empty mirror it is the only entry
\* besides . and .., and no other directory lists the synthesized entry.
C7_OneConfigEntry ==
    MountedSplit =>
        /\ Cardinality(ConfigEntries(FullListing(INO_ROOT))) = 1
        /\ mirror = SplitEmpty =>
              EntryNames(FullListing(INO_ROOT)) = <<DOT, DOTDOT, CONFIG_FILE_NAME>>
        /\ \A d \in DirInos \ {INO_ROOT} :
              \A i \in 1..Len(FullListing(d)) : FullListing(d)[i].ino # INO_CONFIG

\* The same for the mirrors whose root has no entry named .scfs_config
C7_OneConfigEntryOtherNames ==
    (MountedSplit /\ ~Exists(mirror, Join(MIRROR, CONFIG_FILE_NAME)))
    => /\ Cardinality(ConfigEntries(FullListing(INO_ROOT))) = 1
       /\ mirror = SplitEmpty =>
             EntryNames(FullListing(INO_ROOT)) = <<DOT, DOTDOT, CONFIG_FILE_NAME>>
       /\ \A d \in DirInos \ {INO_ROOT} :
             \A i \in 1..Len(FullListing(d)) : FullListing(d)[i].ino # INO_CONFIG

\* The root of an empty mirror, listed
C7_Witness ==
    /\ MountedSplit
    /\ mirror = SplitEmpty
    /\ request.op = "readdir"
    /\ request.offset = 0
    /\ reply.kind = "dir"
    /\ EntryNames(reply.val) = <<DOT, DOTDOT, CONFIG_FILE_NAME>>

\* The chunk directories right below the directory at p: the directories
\* that hold a regular file
ChunkDirsIn(fs, p) ==
    {n \in fs : /\ n.kind = "dir"
                /\ Len(n.path) = Len(p) + 1
                /\ Parent(n.path) = p
                /\ \E c \in fs : c.kind = "file" /\ Parent(c.path) = n.path}

\* C8: a mounted CatFS never shows the mirror's .scfs_config: no listing
\* holds the name and a lookup of it fails with ENOENT; a mirror with a
\* valid config file and nothing else mounts, as an empty root; and every
\* directory lists one regular file per chunk directory, and no other.
C8_ConfigHidden ==
    /\ (mode = "cat" /\ phase # "start" /\ \E b \in Blocksizes \cup {CONFIG_DEFAULT_BLOCKSIZE} :
            mirror = CatEmpty(ToJson([blocksize |-> b])))
       => /\ phase = "mounted"
          /\ EntryNames(FullListing(INO_ROOT)) = <<DOT, DOTDOT>>
    /\ (MountedCat /\ request.op = "readdir")
       => /\ reply.kind = "dir"
          /\ ConfigEntries(reply.val) = {}
    /\ (MountedCat /\ request.op = "lookup" /\ request.name = CONFIG_FILE_NAME)
       => IsError(reply, ENOENT)
    /\ MountedCat
       => \A d \in DirInos :
             LET full == FullListing(d)
                 files == {i \in 1..Len(full) : full[i].kind = "RegularFile"}
                 dirs == ChunkDirsIn(mirror, RowByIno(file_db, d).path)
             IN  /\ ConfigEntries(full) = {}
                 /\ Cardinality(files) = Cardinality(dirs)
                 /\ {full[i].name : i \in files} = {FileName(n.path) : n \in dirs}

\* The lookup of .scfs_config in the root of a mounted CatFS, refused
C8_Witness ==
    /\ MountedCat
    /\ request.op = "lookup"
    /\ request.parent = INO_ROOT
    /\ request.name = CONFIG_FILE_NAME
    /\ IsError(reply, ENOENT)
    /\ Exists(mirror, Join(MIRROR, CONFIG_FILE_NAME))

----------------------------------------------------------------------------
(* Symbolic links *)

\* The symlink l of the mirror is indexed as a symlink, getattr and the
\* listing of its directory report the kind Symlink, readlink answers its
\* target
LinkServed(l) ==
    \E r \in file_db :
        /\ r.path = l.path
        /\ r.symlink
        /\ r.part = 0
        /\ LET got == Getattr(mode, mirror, file_db, config, config_json, r.ino)
           IN  got.kind = "attr" /\ got.val.kind = "Symlink"
        /\ \E i \in 1..Len(FullListing(r.parent_ino)) :
              /\ FullListing(r.parent_ino)[i].ino = r.ino
              /\ FullListing(r.parent_ino)[i].name = FileName(l.path)
              /\ FullListing(r.parent_ino)[i].kind = "Symlink"
        /\ IsData(SharedReadlink(mirror, file_db, r.ino), l.target)

\* The symlinks of the mirror that a scan from the root comes to
RECURSIVE Reachable(_, _)
Reachable(fs, p) ==
    Len(p) = 1 \/ (NodeAt(fs, Parent(p)).kind = "dir" /\ Reachable(fs, Parent(p)))
Links(fs) == {n \in fs : n.kind = "symlink" /\ Reachable(fs, n.path)}

HasLinks == Links(mirror) # {}

\* C9: in both modes the scan of a mirror with symlinks, broken or not,
\* does not fail, every symlink of the mirror is indexed as a symlink and
\* reported with the kind Symlink by readdir and getattr, readlink answers
\* the link's target unchanged, and no readlink or getattr of a symlink
\* ends the session.
C9_Symlinks ==
    /\ (HasLinks /\ phase # "start")
       => phase # "panicked"
    /\ (HasLinks /\ phase = "mounted") => \A l \in Links(mirror) : LinkServed(l)
    /\ (request.op = "readlink" /\ reply.kind # "none")
       => IsData(reply, NodeAt(mirror, RowByIno(file_db, request.ino).path).target)

\* The same for the symlinks that are not named .scfs_config and whose
\* target is UTF-8
C9_SymlinksUtf8OtherNames ==
    /\ (HasLinks /\ phase # "start")
       => phase # "panicked"
    /\ (HasLinks /\ phase = "mounted")
       => \A l \in Links(mirror) :
             (IsUtf8(l.target) /\ FileName(l.path) # CONFIG_FILE_NAME) => LinkServed(l)
    /\ (request.op = "readlink" /\ reply.kind # "none"
        /\ IsUtf8(NodeAt(mirror, RowByIno(file_db, request.ino).path).target))
       => IsData(reply, NodeAt(mirror, RowByIno(file_db, request.ino).path).target)

\* readlink answered for a symlink whose target does not exist
C9_Witness ==
    /\ phase = "mounted"
    /\ request.op = "readlink"
    /\ IsData(reply, TargetBroken)

----------------------------------------------------------------------------
(* The config file of a CatFS mirror *)

CatConstructed == mode = "cat" /\ origin = {} /\ phase # "start"

\* The config file of the mirror: a regular file whose content is text
ConfigReadable(fs) ==
    LET n == NodeAt(fs, Join(MIRROR, CONFIG_FILE_NAME))
    IN  n.kind = "file" /\ IsUtf8(n.data)
ConfigText(fs) == NodeAt(fs, Join(MIRROR, CONFIG_FILE_NAME)).data

\* C10: constructing CatFS over a mirror without a readable .scfs_config
\* fails with "SCFS config file not found", over a mirror whose
\* .scfs_config is no Config (such as {}) with "SCFS config file contains
\* invalid JSON"; either way no row is in the index and nothing is mounted.
C10_ConfigErrors ==
    CatConstructed =>
        /\ ~ConfigReadable(mirror)
           => /\ phase = "panicked"
              /\ panic_msg = "SCFS config file not found"
              /\ file_db = {}
        /\ (ConfigReadable(mirror)
            /\ (ConfigText(mirror) \in {JSON_EMPTY, <<>>} \/ ~FromJson(ConfigText(mirror)).ok))
           => /\ phase = "panicked"
              /\ panic_msg = "SCFS config file contains invalid JSON"
              /\ file_db = {}
        /\ panic_msg \in {"SCFS config file not found",
                          "SCFS config file contains invalid JSON"}
           => (~ConfigReadable(mirror) \/ ~FromJson(ConfigText(mirror)).ok)

\* CatFS constructed over a mirror whose config file holds {}
C10_Witness ==
    /\ CatConstructed
    /\ mirror = CatEmpty(JSON_EMPTY)
    /\ phase = "panicked"
    /\ panic_msg = "SCFS config file contains invalid JSON"

----------------------------------------------------------------------------
(* Opens and releases, and requests for what the index does not hold *)

\* An inode and a handle id the filesystem never gave out
InoMissing == ClockStart - 1
UnknownFh == ClockStart - 2

SeqRange(s) == {s[i] : i \in 1..Len(s)}

\* A further open
OpenNext ==
    /\ phase = "mounted"
    /\ nopen < MaxOpens
    /\ \E ino \in FileInos : OpenStep(ino)

\* The releases the kernel can send: of a handle it holds, with the inode it
\* opened; and of a handle id that is not in use (released before, or never
\* given out), for any file
ReleasePairs ==
    kernel_fds
      \cup {<<fh, ino>> : fh \in (SeqRange(issued) \cup {UnknownFh}) \ DOMAIN file_handles,
                          ino \in FileInos}

ReleaseAny ==
    /\ phase = "mounted"
    /\ \E fd \in ReleasePairs :
          /\ Serve(Request("release", fd[2], 0, <<>>, fd[1], 0, 0), ReplyOf("ok", 0))
          /\ file_handles' = Release(mode, file_handles, fd[2], fd[1])
          /\ kernel_fds' = kernel_fds \ {fd}
    /\ UNCHANGED <<cli, answers, issued, mode, mirror, origin, config, config_json, panic_msg, file_db,
                   next_fh, clock, nopen, workers>>

\* getattr of an inode without a row
StaleGetattr ==
    /\ phase = "mounted"
    /\ Serve(Request("getattr", InoMissing, 0, <<>>, 0, 0, 0),
             Getattr(mode, mirror, file_db, config, config_json, InoMissing))
    /\ UNCHANGED <<cli, answers, issued, mode, mirror, origin, config, config_json, panic_msg, file_db,
                   file_handles, next_fh, clock, kernel_fds, nopen, workers>>

\* readdir of an inode without a row
StaleReaddir ==
    /\ phase = "mounted"
    /\ Serve(Request("readdir", InoMissing, 0, <<>>, 0, 0, MaxCap),
             Readdir(mode, file_db, InoMissing, 0, MaxCap))
    /\ UNCHANGED <<cli, answers, issued, mode, mirror, origin, config, config_json, panic_msg, file_db,
                   file_handles, next_fh, clock, kernel_fds, nopen, workers>>

\* open of an inode without a row
StaleOpen ==
    /\ phase = "mounted"
    /\ nopen < MaxOpens
    /\ OpenStep(InoMissing)

HandleSplitInputs ==
    {[mirror |-> SplitOne(2), config |-> [blocksize |-> 1]]}
HandleCatMirrors == {CatOne(1, 1, FALSE)}

InitHandles ==
    /\ \/ /\ mode = "split"
          /\ \E inp \in HandleSplitInputs : mirror = inp.mirror /\ config = inp.config
       \/ /\ mode = "cat"
          /\ mirror \in HandleCatMirrors
          /\ config = NoConfig
    /\ InitRest

NextHandles ==
    \/ SplitMount
    \/ CatMount
    \/ OpenNext
    \/ ReleaseAny
    \/ StaleGetattr
    \/ StaleReaddir
    \/ StaleOpen

SpecHandles == InitHandles /\ [][NextHandles]_vars

\* Lookups, with and without an open handle
LookupSplitInputs ==
    HandleSplitInputs
      \cup {[mirror |-> SplitTree(1, TRUE), config |-> [blocksize |-> b]] :
              b \in Blocksizes}
LookupCatMirrors == HandleCatMirrors \cup {CatTree(1, b) : b \in Blocksizes}

InitLookup ==
    /\ \/ /\ mode = "split"
          /\ \E inp \in LookupSplitInputs : mirror = inp.mirror /\ config = inp.config
       \/ /\ mode = "cat"
          /\ mirror \in LookupCatMirrors
          /\ config = NoConfig
    /\ InitRest

NextLookup ==
    \/ SplitMount
    \/ CatMount
    \/ OpenReq
    \/ LookupReq
    \/ ReleaseReq

SpecLookup == InitLookup /\ [][NextLookup]_vars


\* The lookup answered last found no row, and is not the one of the config
\* file of a SplitFS
LookupMissed ==
    /\ request.op = "lookup"
    /\ QueryByParentInoAndFilename(file_db, request.parent, request.name) = <<>>
    /\ ~(mode = "split" /\ request.parent = INO_ROOT
         /\ request.name = CONFIG_FILE_NAME)

\* C11: a lookup of a (parent, name) without a row (and, in SplitFS, other
\* than the config file in the root) is answered ENOENT and the filesystem
\* is still mounted after it; no lookup changes the index or the handle
\* table.
C11_LookupMiss ==
    /\ [](LookupMissed => (IsError(reply, ENOENT) /\ phase = "mounted"))
    /\ [][LookupReq => UNCHANGED <<file_db, file_handles, next_fh>>]_vars

\* A lookup that found nothing, answered while a handle is open
C11_Witness ==
    /\ LookupMissed
    /\ IsError(reply, ENOENT)
    /\ request.name = NameMissing
    /\ DOMAIN file_handles # {}


\* The request dispatched last names an inode without a row (and not the
\* config file of a SplitFS)
StaleInode ==
    /\ \/ request.op \in {"getattr", "readdir"}
       \/ request.op = "open" /\ mode = "split"
    /\ ~HasIno(file_db, request.ino)
    /\ ~(mode = "split" /\ request.ino = INO_CONFIG)

\* C12: getattr, readdir and, in SplitFS, open of an inode without a row
\* are answered ENOENT, and the filesystem is still mounted after them.
C12_StaleInode ==
    StaleInode => (IsError(reply, ENOENT) /\ phase = "mounted")

\* A getattr of an inode without a row was dispatched, and the session ended
C12_Witness ==
    /\ StaleInode
    /\ request.op = "getattr"
    /\ reply.kind = "panic"
    /\ phase = "crashed"


\* C13: every release is answered OK and leaves the filesystem mounted and
\* the index alone; the release of a live handle removes that entry and no
\* other, the release of a handle id that is not in the table leaves the
\* table as it was, and after a release the id is not in the table, so that
\* releasing it again changes nothing.
C13_Release ==
    [][ReleaseAny =>
          LET fh == request'.fh
          IN  /\ request'.op = "release"
              /\ reply' = ReplyOf("ok", 0)
              /\ phase' = "mounted"
              /\ file_db' = file_db
              /\ file_handles' = IF fh \in DOMAIN file_handles
                                 THEN MapRemove(file_handles, fh)
                                 ELSE file_handles
              /\ fh \notin DOMAIN file_handles'
              /\ MapRemove(file_handles', fh) = file_handles']_vars

\* A handle that was given out has been released while another one is still
\* in the table
C13_Witness ==
    /\ request.op = "release"
    /\ request.fh \in SeqRange(issued)
    /\ request.fh \notin DOMAIN file_handles
    /\ DOMAIN file_handles # {}
    /\ reply = ReplyOf("ok", 0)

\* A handle id that was never given out has been released while a handle is
\* in the table
C13_WitnessUnknown ==
    /\ request.op = "release"
    /\ request.fh = UnknownFh
    /\ DOMAIN file_handles # {}
    /\ reply = ReplyOf("ok", 0)


----------------------------------------------------------------------------
(* Reads of files that changed under the mount *)

\* The files the open handles name
HandleFiles ==
    IF mode = "split"
    THEN {file_handles[fh].file : fh \in DOMAIN file_handles}
    ELSE UNION {{file_handles[fh][i].file : i \in 1..Len(file_handles[fh])} :
                  fh \in DOMAIN file_handles}

\* unlink(p): the node is gone, and its name is gone from its directory
RemoveNode(fs, p) ==
    {IF n.path = Parent(p)
     THEN [n EXCEPT !.entries = SelectSeq(n.entries, LAMBDA e : e # FileName(p))]
     ELSE n : n \in fs \ {NodeAt(fs, p)}}

\* The path now names a directory: it can be opened, and reading it fails
RetypeNode(fs, p) == (fs \ {NodeAt(fs, p)}) \cup {DirNode(p, <<>>)}

\* Another process removes a file an open handle names; the request and the
\* reply on record are those of the mirror as it is
EnvRemove ==
    /\ phase = "mounted" /\ origin = {} /\ workers = <<>>
    /\ \E p \in HandleFiles :
          /\ NodeAt(mirror, p).kind = "file"
          /\ mirror' = RemoveNode(mirror, p)
    /\ origin' = mirror
    /\ request' = NoRequest
    /\ reply' = NoReply
    /\ UNCHANGED <<cli, answers, issued, mode, config, config_json, phase, panic_msg, file_db,
                   file_handles, next_fh, clock, kernel_fds, nopen, workers>>

\* Another process puts a directory in the place of a file an open handle
\* names
EnvRetype ==
    /\ phase = "mounted" /\ origin = {} /\ workers = <<>>
    /\ \E p \in HandleFiles :
          /\ NodeAt(mirror, p).kind = "file"
          /\ mirror' = RetypeNode(mirror, p)
    /\ origin' = mirror
    /\ request' = NoRequest
    /\ reply' = NoReply
    /\ UNCHANGED <<cli, answers, issued, mode, config, config_json, phase, panic_msg, file_db,
                   file_handles, next_fh, clock, kernel_fds, nopen, workers>>

FaultSplitInputs ==
    {[mirror |-> SplitOne(s), config |-> [blocksize |-> b]] :
        s \in 1..MaxSize, b \in Blocksizes}
FaultCatMirrors == {CatOne(s, b, FALSE) : s \in 1..MaxSize, b \in Blocksizes}

InitFaults ==
    /\ \/ /\ mode = "split"
          /\ \E inp \in FaultSplitInputs : mirror = inp.mirror /\ config = inp.config
       \/ /\ mode = "cat"
          /\ mirror \in FaultCatMirrors
          /\ config = NoConfig
    /\ InitRest

NextFaults ==
    \/ SplitMount
    \/ CatMount
    \/ OpenReq
    \/ EnvRemove
    \/ EnvRetype
    \/ ReadReq
    \/ WorkerDone
    \/ ReleaseReq

SpecFaults == InitFaults /\ [][NextFaults]_vars

\* The read dispatched last asked for at least one byte of a file that can
\* no longer be opened and read: the backing file of the chunk (SplitFS), the
\* chunk file that holds the byte at the read's offset (CatFS)
ReadOfFailingFile ==
    /\ request.op = "read"
    /\ request.size > 0
    /\ request.fh \in DOMAIN file_handles
    /\ IF mode = "split"
       THEN /\ request.ino # INO_CONFIG
            /\ request.offset < file_handles[request.fh].end
                                  - file_handles[request.fh].start
            /\ ~FileBytes(mirror, file_handles[request.fh].file).ok
       ELSE LET part == request.offset \div config.blocksize + 1
            IN  /\ part <= Len(file_handles[request.fh])
                /\ ~FileBytes(mirror, file_handles[request.fh][part].file).ok

\* C14: a read for which opening or reading the backing file (SplitFS) or a
\* chunk file (CatFS) fails is answered with an I/O error, and the
\* filesystem stays mounted with its index and its handles as they were.
C14_ReadFault ==
    (ReadOfFailingFile /\ reply.kind # "none")
        => (IsError(reply, EIO) /\ phase = "mounted")

\* A CatFS read of a file one of whose chunks was removed ended the session
C14_Witness ==
    /\ ReadOfFailingFile
    /\ mode = "cat"
    /\ reply.kind = "panic"
    /\ phase = "crashed"

\* What holds of the reads that fail: in SplitFS the worker fails, the read
\* is answered EIO and the filesystem stays mounted
C14_SplitReadFault ==
    (ReadOfFailingFile /\ reply.kind # "none" /\ mode = "split")
        => (IsError(reply, EIO) /\ phase = "mounted")

\* A SplitFS read of a removed backing file was answered EIO
C14_WitnessSplit ==
    /\ ReadOfFailingFile
    /\ mode = "split"
    /\ IsError(reply, EIO)
    /\ phase = "mounted"


----------------------------------------------------------------------------
(* The inodes of SplitFS *)

\* SplitFS::new has run
SplitScanned == mode = "split" /\ phase # "start"

\* The scan inserted every row it made: no INSERT was refused because its
\* inode was in the index already
ScanCompleted == phase # "panicked"

\* C15: in SplitFS, for every mirror and every block size, the inodes the
\* scan gives to directories, files and symlinks (clock readings) and to
\* chunks (the file's inode + i + 1) are pairwise distinct, so that the scan
\* completes with one row per inode, and none of them is a reserved id
\* (0, 2, or 1 for a row other than the root's).
C15_UniqueInodes ==
    SplitScanned =>
        /\ ScanCompleted
        /\ \A r1, r2 \in file_db : r1.ino = r2.ino => r1 = r2
        /\ \A r \in file_db :
              /\ r.ino \notin {INO_OUTSIDE, INO_CONFIG}
              /\ r.ino = INO_ROOT => r.parent_ino = INO_OUTSIDE

\* The scan gave an entry the clock's reading, which was the inode of a
\* chunk inserted before, and ended there
C15_Witness ==
    /\ SplitScanned
    /\ phase = "panicked"
    /\ \E r \in file_db : r.part > 0 /\ r.ino = clock


----------------------------------------------------------------------------
(* Handle ids *)

\* No handle id was given out twice
FreshHandles == \A i, j \in 1..Len(issued) : issued[i] = issued[j] => i = j

\* Every handle the kernel holds has its own entry in the handle table
HandlesBacked ==
    \A fd \in kernel_fds :
       /\ ~(mode = "split" /\ fd[2] = INO_CONFIG) => fd[1] \in DOMAIN file_handles
       /\ \A other \in kernel_fds : other[1] = fd[1] => other = fd

\* C16: in both modes every open of an inode other than the config file
\* returns a handle id no earlier open of the mount returned, so that two
\* handles held at once never share an entry of the handle table and the
\* release of one leaves the other's entry in place.
C16_FreshHandles == FreshHandles /\ HandlesBacked

\* Two opens of SplitFS returned the same handle id, one of the two handles
\* was released, and the other one is left without its entry
C16_Witness ==
    /\ mode = "split"
    /\ Len(issued) = 2
    /\ issued[1] = issued[2]
    /\ \E fd \in kernel_fds : fd[1] = issued[1] /\ fd[1] \notin DOMAIN file_handles

\* What holds: the handle ids of CatFS, taken from a counter, are fresh
C16_CatFreshHandles == mode = "cat" => (FreshHandles /\ HandlesBacked)

\* CatFS gave out two handles, and both are held
C16_WitnessCat ==
    /\ mode = "cat"
    /\ Len(issued) = 2
    /\ Cardinality(kernel_fds) = 2


----------------------------------------------------------------------------
(* The command line: the block size (cli.rs) *)

\* Numbers beyond the range of TLC's integers are little-endian
\* sequences of 16-bit limbs without leading zero limbs; a u64 has at most
\* four of them
LimbBase == 65536
U64Limbs == 4

\* limbs * m + a for small m and a
RECURSIVE MulAdd(_, _, _)
MulAdd(limbs, m, a) ==
    IF limbs = <<>>
    THEN IF a = 0 THEN <<>> ELSE <<a % LimbBase>> \o MulAdd(<<>>, m, a \div LimbBase)
    ELSE LET x == Head(limbs) * m + a
         IN  <<x % LimbBase>> \o MulAdd(Tail(limbs), m, x \div LimbBase)

\* The limbs without leading zero limbs
RECURSIVE Normal(_)
Normal(limbs) ==
    IF limbs # <<>> /\ Last(limbs) = 0 THEN Normal(Front(limbs)) ELSE limbs

\* The value of a string of decimal digits
RECURSIVE DigitsLimbs(_)
DigitsLimbs(digits) ==
    IF digits = <<>> THEN <<>>
    ELSE Normal(MulAdd(DigitsLimbs(Front(digits)), 10, Last(digits) - 48))

\* value * 1024^exp
RECURSIVE TimesPow1024(_, _)
TimesPow1024(value, exp) ==
    IF exp = 0 THEN value ELSE TimesPow1024(Normal(MulAdd(value, 1024, 0)), exp - 1)

FitsU64(value) == Len(value) <= U64Limbs
\* The value modulo 2^64
WrapU64(value) == Normal(Take(value, U64Limbs))

\* char::is_whitespace, for the characters of the inputs (White_Space below
\* U+0100)
IsWhitespace(c) == c \in {9, 10, 11, 12, 13, 32, 133, 160}

\* str::trim
RECURSIVE TrimStart(_)
TrimStart(s) ==
    IF s # <<>> /\ IsWhitespace(Head(s)) THEN TrimStart(Tail(s)) ELSE s
RECURSIVE TrimEnd(_)
TrimEnd(s) ==
    IF s # <<>> /\ IsWhitespace(Last(s)) THEN TrimEnd(Front(s)) ELSE s
Trim(s) == TrimEnd(TrimStart(s))

\* s.chars().take_while(|c| c.is_ascii_digit())
RECURSIVE TakeDigits(_)
TakeDigits(s) ==
    IF s # <<>> /\ IsDigit(Head(s)) THEN <<Head(s)>> \o TakeDigits(Tail(s)) ELSE <<>>

\* str::len of a string of characters below U+0800: its length in bytes
RECURSIVE Utf8Len(_)
Utf8Len(s) ==
    IF s = <<>> THEN 0
    ELSE (IF Head(s) < 128 THEN 1 ELSE 2) + Utf8Len(Tail(s))

\* "KMGT".contains(q) for a q of at most one byte, and the exponent matched
\* to it
QuantifierExp(q) ==
    CASE q = <<>> -> 0
      [] q = <<75>> -> 1
      [] q = <<77>> -> 2
      [] q = <<71>> -> 3
      [] q = <<84>> -> 4
      [] OTHER -> -1

QOk(value) == [kind |-> "ok", val |-> value, msg |-> ""]
QErr(msg) == [kind |-> "err", val |-> <<>>, msg |-> msg]
QPanic == [kind |-> "panic", val |-> <<>>, msg |-> ""]

\* convert_symbolic_quantity: the outcomes the build can produce.  The parse
\* of more digits than a u64 holds is an Err, and its unwrap a panic; a
\* product beyond u64 is a panic with overflow checks and wraps without.
convert_symbolic_quantity(input) ==
    LET s == Trim(input)
        digits == TakeDigits(s)
        base == DigitsLimbs(digits)
        quantifier == Trim(Drop(s, Len(digits)))
        exp == QuantifierExp(quantifier)
        product == TimesPow1024(base, exp)
    IN  IF digits = <<>> THEN {QErr("No digits given")}
        ELSE IF ~FitsU64(base) THEN {QPanic}
        ELSE IF base = <<>> THEN {QErr("Base may not be zero or negative")}
        ELSE IF Utf8Len(quantifier) > 1 \/ exp < 0 THEN {QErr("Unkown quantifier")}
        ELSE IF FitsU64(product) THEN {QOk(product)}
        ELSE {QPanic, QOk(WrapU64(product))}


\* The block sizes given on the command line: digit strings up to
\* MaxDigitLen, and the numbers around the ends of the u64 range
MaxDigitLen == 2
RECURSIVE DigitStrings(_)
DigitStrings(n) ==
    IF n = 0 THEN {<<>>}
    ELSE LET shorter == DigitStrings(n - 1)
         IN  shorter \cup {Append(d, c) : d \in shorter, c \in {48, 49, 57}}
\* 2^24 - 1, 2^24, 2^54, 2^64 - 1, 2^64
LargeNumerals ==
    {<<49, 54, 55, 55, 55, 50, 49, 53>>,
     <<49, 54, 55, 55, 55, 50, 49, 54>>,
     <<49, 56, 48, 49, 52, 51, 57, 56, 53, 48, 57, 52, 56, 49, 57, 56, 52>>,
     <<49, 56, 52, 52, 54, 55, 52, 52, 48, 55, 51, 55, 48, 57, 53, 53, 49, 54, 49, 53>>,
     <<49, 56, 52, 52, 54, 55, 52, 52, 48, 55, 51, 55, 48, 57, 53, 53, 49, 54, 49, 54>>}
\* -1, +1
SignedNumerals == {<<45, 49>>, <<43, 49>>}
\* none, K M G T, and k, X, K1, KK, 1K, e-acute, K-space-1
GoodQuantifiers == {<<>>, <<75>>, <<77>>, <<71>>, <<84>>}
BadQuantifiers == {<<107>>, <<88>>, <<75, 49>>, <<75, 75>>, <<233>>, <<75, 32, 49>>}
Blanks == {<<>>, <<32>>, <<9, 32>>}
QuantityInputs ==
    {lead \o num \o mid \o quant \o trail :
        lead \in {<<>>, <<32>>},
        num \in DigitStrings(MaxDigitLen) \cup LargeNumerals \cup SignedNumerals,
        mid \in Blanks,
        quant \in GoodQuantifiers \cup BadQuantifiers,
        trail \in {<<>>, <<32>>}}

\* The process is about to convert its --blocksize argument
InitQuantity ==
    /\ mode = "split"
    /\ mirror = SplitEmpty
    /\ config = NoConfig
    /\ origin = {}
    /\ config_json = <<>>
    /\ phase = "start"
    /\ panic_msg = ""
    /\ file_db = {}
    /\ file_handles = <<>>
    /\ next_fh = 0
    /\ clock = ClockStart
    /\ kernel_fds = {}
    /\ issued = <<>>
    /\ nopen = 0
    /\ request = NoRequest
    /\ reply = NoReply
    /\ workers = <<>>
    /\ answers = <<>>
    /\ \E input \in QuantityInputs :
          cli = [stage |-> "blocksize", input |-> input, result |-> QErr("")]

\* let blocksize = convert_symbolic_quantity(blocksize)
ConvertQuantity ==
    /\ cli.stage = "blocksize"
    /\ \E r \in convert_symbolic_quantity(cli.input) :
          cli' = [cli EXCEPT !.stage = "converted", !.result = r]
    /\ UNCHANGED <<mode, mirror, origin, config, config_json, phase, panic_msg,
                   file_db, file_handles, next_fh, clock, kernel_fds, issued, nopen,
                   request, reply, workers, answers>>

NextQuantity == ConvertQuantity

SpecQuantity == InitQuantity /\ [][NextQuantity]_vars

\* The input read as the claim reads it: after trimming, a digit string, then
\* optional white space, then the rest
AllDigits(s) == \A i \in 1..Len(s) : IsDigit(s[i])
NumberPart(input) ==
    LET t == Trim(input)
        ks == {k \in 0..Len(t) : AllDigits(Take(t, k))}
    IN  Take(t, CHOOSE k \in ks : \A j \in ks : j <= k)
SuffixPart(input) == TrimStart(Drop(Trim(input), Len(NumberPart(input))))
SuffixExponent(suffix) ==
    CHOOSE e \in 0..4 : suffix = <<<<>>, <<75>>, <<77>>, <<71>>, <<84>>>>[e + 1]

\* A decimal integer of at least 1, then at most one of K, M, G, T
WellFormedQuantity(input) ==
    /\ NumberPart(input) # <<>>
    /\ \E i \in 1..Len(NumberPart(input)) : NumberPart(input)[i] # 48
    /\ SuffixPart(input) \in GoodQuantifiers

\* No leading digits, the number 0, an unknown suffix or more than a suffix
IllFormedQuantity(input) ==
    \/ NumberPart(input) = <<>>
    \/ \A i \in 1..Len(NumberPart(input)) : NumberPart(input)[i] = 48
    \/ SuffixPart(input) \notin GoodQuantifiers

Converted == cli.stage = "converted"

\* C17: convert_symbolic_quantity returns Ok(base * 1024^e), the exact
\* product, for a trimmed input that is a decimal integer base >= 1, then
\* optional white space, then at most one of K, M, G, T (e = 1, 2, 3, 4, and
\* e = 0 without one); it returns Err for an input without leading digits,
\* for base 0, for an unknown suffix and for anything after the suffix.
C17_Quantity ==
    Converted =>
        /\ WellFormedQuantity(cli.input) =>
              cli.result = QOk(TimesPow1024(DigitsLimbs(NumberPart(cli.input)),
                                            SuffixExponent(SuffixPart(cli.input))))
        /\ IllFormedQuantity(cli.input) => cli.result.kind = "err"

\* 16777216T was converted without overflow checks: 2^24 * 2^40 wrapped to 0
C17_Witness ==
    /\ Converted
    /\ cli.input = <<49, 54, 55, 55, 55, 50, 49, 54, 84>>
    /\ cli.result = QOk(<<>>)

\* What holds: the claim's equation for the products within the u64 range,
\* and its errors for the numbers within it
C17_QuantityInRange ==
    Converted =>
        /\ (/\ WellFormedQuantity(cli.input)
            /\ FitsU64(TimesPow1024(DigitsLimbs(NumberPart(cli.input)),
                                    SuffixExponent(SuffixPart(cli.input)))))
              => cli.result = QOk(TimesPow1024(DigitsLimbs(NumberPart(cli.input)),
                                               SuffixExponent(SuffixPart(cli.input))))
        /\ (/\ IllFormedQuantity(cli.input)
            /\ FitsU64(DigitsLimbs(NumberPart(cli.input))))
              => cli.result.kind = "err"

\* " 1 K " was converted to 1024
C17_WitnessInRange ==
    /\ Converted
    /\ cli.input = <<32, 49, 32, 75, 32>>
    /\ cli.result = QOk(<<1024>>)


----------------------------------------------------------------------------
(* The command line: Cli::run and mount (cli.rs, lib.rs) *)

\* The option names mount_option_from_str knows, with their MountOption
MountOptionNames ==
    { <<<<97, 117, 116, 111, 95, 117, 110, 109, 111, 117, 110, 116>>, "AutoUnmount">>,
      <<<<97, 108, 108, 111, 119, 95, 111, 116, 104, 101, 114>>, "AllowOther">>,
      <<<<97, 108, 108, 111, 119, 95, 114, 111, 111, 116>>, "AllowRoot">>,
      <<<<100, 101, 102, 97, 117, 108, 116, 95, 112, 101, 114, 109, 105, 115, 115, 105, 111, 110, 115>>, "DefaultPermissions">>,
      <<<<100, 101, 118>>, "Dev">>,
      <<<<110, 111, 100, 101, 118>>, "NoDev">>,
      <<<<115, 117, 105, 100>>, "Suid">>,
      <<<<110, 111, 115, 117, 105, 100>>, "NoSuid">>,
      <<<<114, 111>>, "RO">>,
      <<<<114, 119>>, "RW">>,
      <<<<101, 120, 101, 99>>, "Exec">>,
      <<<<110, 111, 101, 120, 101, 99>>, "NoExec">>,
      <<<<97, 116, 105, 109, 101>>, "Atime">>,
      <<<<110, 111, 97, 116, 105, 109, 101>>, "NoAtime">>,
      <<<<100, 105, 114, 115, 121, 110, 99>>, "DirSync">>,
      <<<<115, 121, 110, 99>>, "Sync">>,
      <<<<97, 115, 121, 110, 99>>, "Async">> }

MountOption(opt, val) == [opt |-> opt, val |-> val]

\* fsname=  subtype=  -o  scfs
OPT_FSNAME == <<102, 115, 110, 97, 109, 101, 61>>
OPT_SUBTYPE == <<115, 117, 98, 116, 121, 112, 101, 61>>
OPT_DASH_O == <<45, 111>>
FSNAME_SCFS == <<115, 99, 102, 115>>

\* mount_option_from_str
mount_option_from_str(s) ==
    IF \E row \in MountOptionNames : row[1] = s
    THEN MountOption((CHOOSE row \in MountOptionNames : row[1] = s)[2], <<>>)
    ELSE IF IsPrefix(OPT_FSNAME, s) THEN MountOption("FSName", Drop(s, 7))
    ELSE IF IsPrefix(OPT_SUBTYPE, s) THEN MountOption("Subtype", Drop(s, 8))
    ELSE MountOption("CUSTOM", s)

\* The iterator Cli::run hands to mount: the values of -o, then the values
\* after "--", each one flat-mapped to the two items "-o" and the value
RECURSIVE FlatMapDashO(_)
FlatMapDashO(values) ==
    IF values = <<>> THEN <<>>
    ELSE <<OPT_DASH_O, Head(values)>> \o FlatMapDashO(Tail(values))
FuseOptions(o_values, extra_values) == FlatMapDashO(o_values \o extra_values)

\* The options of mount: RO and FSName("scfs"), then every item of the
\* iterator converted by mount_option_from_str
MountOptions(fuse_options) ==
    <<MountOption("RO", <<>>), MountOption("FSName", FSNAME_SCFS)>>
      \o [i \in 1..Len(fuse_options) |-> mount_option_from_str(fuse_options[i])]

\* The paths of the machine Cli::run runs on: directories a, a/b and c below
\* the working directory, and l, which may be a symlink to a
AllDirs == {<<"a">>, <<"a", "b">>, <<"c">>}
LinkName == "l"
LinkTarget == <<"a">>

\* The sets of directories closed under Path::parent
DirSets == {ds \in SUBSET AllDirs : \A p \in ds : Len(p) > 1 => Front(p) \in ds}

\* Path::canonicalize of a path without . and ..: the symlink is resolved
Canonical(p, link) ==
    IF link /\ p # <<>> /\ Head(p) = LinkName THEN LinkTarget \o Tail(p) ELSE p

\* Path::exists: the path, symlinks followed, names something
PathExists(p, dirs, link) == Canonical(p, link) \in dirs

\* The directories after fs::create_dir_all(p)
CreateDirAll(p, dirs, link) ==
    dirs \cup {Take(Canonical(p, link), n) : n \in 1..Len(Canonical(p, link))}

\* Path::starts_with: whole components
StartsWith(p, base) == IsPrefix(base, p)


\* The bounds of the command line: interrupts delivered, -o and "--" values
MaxSigints == 1
MaxOpts == 2

\* The panics of Cli::run
MSG_NO_MIRROR == "Mirror path does not exist"
MSG_NO_MOUNTPOINT == "Mountpoint path does not exist"
MSG_SUBFOLDER == "Mirror must not be in a subfolder of mountpoint"
MSG_UNWRAP == "unwrap"
MSG_DAEMONIZE == "Failed to daemonize."

Abort(c, msg) == [c EXCEPT !.stage = "aborted", !.diag = msg]

\* The drop hook: tx_quitter.send(true).unwrap_or(())
DropHook(c) ==
    IF c.rx THEN [c EXCEPT !.queue = @ + 1, !.sent = @ + 1] ELSE c

\* The filesystem object is dropped: Drop for SplitFS / CatFS calls the hook
DropFs(c) == DropHook([c EXCEPT !.fs = "dropped"])

\* PathsChecked creating a missing mountpoint whether or not --mkdir is given
PathsChecked_AlwaysCreate(c) ==
    LET there == PathExists(c.mountpoint, c.dirs, c.link)
        dirs1 == IF there THEN c.dirs ELSE CreateDirAll(c.mountpoint, c.dirs, c.link)
    IN  IF ~PathExists(c.mirror, c.dirs, c.link) THEN Abort(c, MSG_NO_MIRROR)
        ELSE IF StartsWith(Canonical(c.mirror, c.link), Canonical(c.mountpoint, c.link))
        THEN Abort([c EXCEPT !.dirs = dirs1], MSG_SUBFOLDER)
        ELSE [c EXCEPT !.stage = "checked", !.dirs = dirs1]

\* The checks of Cli::run on its two paths.  fs::create_dir_all fails when
\* the system refuses it (c.denied) or the path leads through a dangling
\* symlink.
PathsChecked(c) ==
    LET there == PathExists(c.mountpoint, c.dirs, c.link)
        dangling == c.link /\ Head(c.mountpoint) = LinkName /\ LinkTarget \notin c.dirs
        dirs1 == IF there THEN c.dirs ELSE CreateDirAll(c.mountpoint, c.dirs, c.link)
    IN  IF ~PathExists(c.mirror, c.dirs, c.link) THEN Abort(c, MSG_NO_MIRROR)
        ELSE IF ~there /\ ~c.mkdir THEN Abort(c, MSG_NO_MOUNTPOINT)
        ELSE IF ~there /\ (c.denied \/ dangling) THEN Abort(c, MSG_UNWRAP)
        ELSE IF StartsWith(Canonical(c.mirror, c.link), Canonical(c.mountpoint, c.link))
        THEN Abort([c EXCEPT !.dirs = dirs1], MSG_SUBFOLDER)
        ELSE [c EXCEPT !.stage = "checked", !.dirs = dirs1]

\* The variables of the filesystem objects while the command line is looked
\* at alone
LibraryIdle ==
    /\ mode = "split"
    /\ mirror = SplitEmpty
    /\ config = NoConfig
    /\ origin = {}
    /\ config_json = <<>>
    /\ phase = "start"
    /\ panic_msg = ""
    /\ file_db = {}
    /\ file_handles = <<>>
    /\ next_fh = 0
    /\ clock = ClockStart
    /\ kernel_fds = {}
    /\ issued = <<>>
    /\ nopen = 0
    /\ request = NoRequest
    /\ reply = NoReply
    /\ workers = <<>>
    /\ answers = <<>>

LibraryUnchanged ==
    UNCHANGED <<mode, mirror, origin, config, config_json, phase, panic_msg,
                file_db, file_handles, next_fh, clock, kernel_fds, issued, nopen,
                request, reply, workers, answers>>

\* The process at the entry of Cli::run, its arguments parsed (args) on a
\* machine with the directories dirs
CliStart(args, dirs) ==
    [stage |-> "start", fsmode |-> args.fsmode, mirror |-> args.mirror,
     mountpoint |-> args.mountpoint, mkdir |-> args.mkdir, daemon |-> args.daemon,
     o_values |-> args.o_values, extra_values |-> args.extra_values,
     blocksize |-> args.blocksize, dirs0 |-> dirs.dirs, dirs |-> dirs.dirs,
     link |-> dirs.link, denied |-> dirs.denied, diag |-> "",
     fs |-> "none", options |-> <<>>, queue |-> 0, sent |-> 0, handler |-> "none",
     pending |-> 0, sigints |-> 0, interrupted |-> FALSE, rx |-> FALSE]

\* The arguments of a run, and the machine it runs on
Args(fsmode, mirror_arg, mountpoint_arg, mkdir, daemon, o_values, extra_values, blocksize) ==
    [fsmode |-> fsmode, mirror |-> mirror_arg, mountpoint |-> mountpoint_arg,
     mkdir |-> mkdir, daemon |-> daemon, o_values |-> o_values,
     extra_values |-> extra_values, blocksize |-> blocksize]
Machine(dirs, link, denied) == [dirs |-> dirs, link |-> link, denied |-> denied]

\* The checks of the two paths at the start of Cli::run
CheckPaths ==
    /\ cli.stage = "start"
    /\ cli' = PathsChecked(cli)
    /\ LibraryUnchanged

\* channel(), ctrlc::set_handler: the handler thread is started
InstallHandler ==
    /\ cli.stage = "checked"
    /\ cli' = [cli EXCEPT !.stage = "armed", !.handler = "installed", !.rx = TRUE]
    /\ LibraryUnchanged

\* The block size is converted (SplitFS) and the filesystem object is
\* constructed; the constructor panics for a mirror it cannot serve (built)
Construct ==
    /\ cli.stage = "armed"
    /\ \E r \in (IF cli.fsmode = "split" THEN convert_symbolic_quantity(cli.blocksize)
                 ELSE {QOk(<<>>)}),
          built \in BOOLEAN :
          cli' = IF r.kind # "ok" \/ ~built THEN Abort(cli, MSG_UNWRAP)
                 ELSE [cli EXCEPT !.stage = "constructed", !.fs = "alive"]
    /\ LibraryUnchanged

\* if daemonize { Daemonize::new().start().expect(..) }: the process that
\* goes on is the child of a fork, which has the calling thread alone: the
\* handler thread, and an interrupt it has not yet handled, stay behind
Daemonize ==
    /\ cli.stage = "constructed"
    /\ \E forked \in BOOLEAN :
          cli' = IF ~cli.daemon THEN [cli EXCEPT !.stage = "ready"]
                 ELSE IF ~forked THEN Abort(DropFs(cli), MSG_DAEMONIZE)
                 ELSE [cli EXCEPT !.stage = "ready", !.handler = "lost",
                                  !.pending = 0]
    /\ LibraryUnchanged

\* mount(fs, &mountpoint, fuse_options): spawn_mount2(..).unwrap()
Mount ==
    /\ cli.stage = "ready"
    /\ \E mounted \in BOOLEAN :
          LET c == [cli EXCEPT !.options =
                        MountOptions(FuseOptions(cli.o_values, cli.extra_values))]
          IN  cli' = IF mounted THEN [c EXCEPT !.stage = "waiting"]
                     ELSE Abort(DropFs(c), MSG_UNWRAP)
    /\ LibraryUnchanged

\* rx_quitter.recv() returns with a quit event, and run returns
Recv ==
    /\ cli.stage = "waiting"
    /\ cli.queue > 0
    /\ cli' = [cli EXCEPT !.stage = "returned", !.queue = @ - 1]
    /\ LibraryUnchanged

\* The locals of run are dropped: the session is unmounted and its
\* filesystem object dropped, before or after the receiver is gone
Teardown ==
    /\ cli.stage = "returned"
    /\ cli.rx
    /\ \E rx_first \in BOOLEAN :
          cli' = IF cli.fs # "alive" THEN [cli EXCEPT !.rx = FALSE]
                 ELSE IF rx_first THEN DropFs([cli EXCEPT !.rx = FALSE])
                 ELSE [DropFs(cli) EXCEPT !.rx = FALSE]
    /\ LibraryUnchanged

\* An interrupt signal is delivered to the process
Sigint ==
    /\ cli.stage \in {"armed", "constructed", "ready", "waiting"}
    /\ cli.sigints < MaxSigints
    /\ cli' = [cli EXCEPT !.sigints = @ + 1,
                          !.interrupted = @ \/ cli.stage = "waiting",
                          !.pending = IF cli.handler = "installed" THEN @ + 1 ELSE @]
    /\ LibraryUnchanged

\* The handler thread runs the handler: tx_quitter.send(true).unwrap()
HandlerRun ==
    /\ cli.handler = "installed"
    /\ cli.pending > 0
    /\ cli' = IF cli.rx
              THEN [cli EXCEPT !.pending = @ - 1, !.queue = @ + 1, !.sent = @ + 1]
              ELSE [cli EXCEPT !.pending = @ - 1, !.handler = "none"]
    /\ LibraryUnchanged

\* The filesystem is unmounted from outside: the session ends and drops the
\* filesystem object
Unmount ==
    /\ cli.stage = "waiting"
    /\ cli.fs = "alive"
    /\ cli' = DropFs(cli)
    /\ LibraryUnchanged

\* The steps of the thread that runs Cli::run
RunStep ==
    \/ CheckPaths
    \/ InstallHandler
    \/ Construct
    \/ Daemonize
    \/ Mount
    \/ Recv
    \/ Teardown

NextCli ==
    \/ RunStep
    \/ Sigint
    \/ HandlerRun
    \/ Unmount

\* 1, K
BLOCKSIZE_ONE == <<49>>
BLOCKSIZE_NONE == <<75>>

PathArgs == AllDirs \cup {<<LinkName>>, <<LinkName, "b">>}

\* Runs over every pair of paths
InitCli ==
    /\ LibraryIdle
    /\ \E fsmode \in {"split", "cat"}, mirror_arg \in PathArgs,
          mountpoint_arg \in PathArgs, mkdir \in BOOLEAN, dirs \in DirSets,
          link \in BOOLEAN, denied \in BOOLEAN :
          cli = CliStart(Args(fsmode, mirror_arg, mountpoint_arg, mkdir, FALSE,
                              <<>>, <<>>, BLOCKSIZE_ONE),
                         Machine(dirs, link, denied))

SpecCli == InitCli /\ [][NextCli]_vars

\* nonempty, ro, fsname=x
OPT_NONEMPTY == <<110, 111, 110, 101, 109, 112, 116, 121>>
OPT_RO == <<114, 111>>
OPT_FSNAME_X == <<102, 115, 110, 97, 109, 101, 61, 120>>
UserOptions == {OPT_NONEMPTY, OPT_RO, OPT_FSNAME_X}
RECURSIVE OptionLists(_)
OptionLists(n) ==
    IF n = 0 THEN {<<>>}
    ELSE LET shorter == OptionLists(n - 1)
         IN  shorter \cup {Append(l, o) : l \in shorter, o \in UserOptions}

\* Runs over every list of options, on paths that pass the checks
InitOptions ==
    /\ LibraryIdle
    /\ \E fsmode \in {"split", "cat"}, o_values \in OptionLists(MaxOpts),
          extra_values \in OptionLists(MaxOpts),
          blocksize \in {BLOCKSIZE_ONE, BLOCKSIZE_NONE} :
          cli = CliStart(Args(fsmode, <<"a">>, <<"c">>, FALSE, FALSE, o_values,
                              extra_values, blocksize),
                         Machine({<<"a">>, <<"c">>}, FALSE, FALSE))

SpecOptions == InitOptions /\ [][NextCli]_vars

\* Runs in the foreground and as a daemon, on paths that pass the checks
InitQuit ==
    /\ LibraryIdle
    /\ \E fsmode \in {"split", "cat"}, daemon \in BOOLEAN, mkdir \in BOOLEAN,
          o_values \in OptionLists(1) :
          cli = CliStart(Args(fsmode, <<"a">>, <<"c">>, mkdir, daemon, o_values,
                              <<>>, BLOCKSIZE_ONE),
                         Machine({<<"a">>}, FALSE, FALSE))

\* The thread of run and the handler thread go on when they can
SpecQuit ==
    InitQuit /\ [][NextCli]_vars /\ WF_vars(RunStep) /\ WF_vars(HandlerRun)


\* The three conditions on the paths, on the machine as run found it
MirrorThere == PathExists(cli.mirror, cli.dirs0, cli.link)
MountpointThere == PathExists(cli.mountpoint, cli.dirs0, cli.link)
MirrorInMountpoint ==
    StartsWith(Canonical(cli.mirror, cli.link), Canonical(cli.mountpoint, cli.link))
PathsValid ==
    /\ MirrorThere
    /\ MountpointThere \/ cli.mkdir
    /\ ~MirrorInMountpoint

\* C18: Cli::run constructs a filesystem object only if the mirror exists,
\* the mountpoint exists or --mkdir was given (and then it is created), and
\* the canonical mirror is not the canonical mountpoint or below it;
\* otherwise it aborts with a diagnostic before any filesystem object is
\* constructed; and no directory is created without --mkdir.
C18_PathChecks ==
    /\ cli.fs # "none" =>
          /\ PathsValid
          /\ PathExists(cli.mountpoint, cli.dirs, cli.link)
    /\ (cli.stage # "start" /\ ~PathsValid) =>
          /\ cli.stage = "aborted"
          /\ cli.diag \in {MSG_NO_MIRROR, MSG_NO_MOUNTPOINT, MSG_SUBFOLDER}
          /\ cli.fs = "none"
    /\ cli.dirs # cli.dirs0 => (cli.mkdir /\ ~MountpointThere)

\* A filesystem is mounted on a mountpoint that run created, below a
\* directory that run created
C18_Witness ==
    /\ cli.stage = "waiting"
    /\ cli.fs = "alive"
    /\ cli.mkdir
    /\ ~MountpointThere
    /\ Cardinality(cli.dirs \ cli.dirs0) = 2

\* A mirror below the mountpoint, reached through the symlink, was refused
C18_WitnessSubfolder ==
    /\ cli.stage = "aborted"
    /\ cli.diag = MSG_SUBFOLDER
    /\ cli.mirror = <<LinkName, "b">>
    /\ cli.mountpoint = <<"a">>


\* The filesystem was handed to FUSE with an option list
Mounted == cli.stage \in {"waiting", "returned"}

\* The user's options as MountOptions, in the order given
UserMountOptions(values) ==
    [i \in 1..Len(values) |-> mount_option_from_str(values[i])]

\* C19: the option list handed to FUSE is RO, FSName("scfs"), then the
\* user's options, each once and in the order given (the -o values, then
\* the values after "--"); so -o X and a trailing -- X give the same list.
C19_MountOptions ==
    /\ Mounted =>
          cli.options = <<MountOption("RO", <<>>), MountOption("FSName", FSNAME_SCFS)>>
                          \o UserMountOptions(cli.o_values \o cli.extra_values)
    /\ \A x \in UserOptions :
          MountOptions(FuseOptions(<<x>>, <<>>)) = MountOptions(FuseOptions(<<>>, <<x>>))

\* Mounted with -o nonempty: the list handed to FUSE has four options, the
\* third of them the custom option "-o"
C19_Witness ==
    /\ Mounted
    /\ cli.o_values = <<OPT_NONEMPTY>>
    /\ cli.extra_values = <<>>
    /\ Len(cli.options) = 4
    /\ cli.options[3] = MountOption("CUSTOM", OPT_DASH_O)

\* What holds: every user option is in the list, in the order given, each
\* behind a custom option "-o"; and -o X and -- X give the same list
C19_OptionsWithDashO ==
    /\ Mounted =>
          LET user == UserMountOptions(cli.o_values \o cli.extra_values)
          IN  /\ Len(cli.options) = 2 + 2 * Len(user)
              /\ cli.options[1] = MountOption("RO", <<>>)
              /\ cli.options[2] = MountOption("FSName", FSNAME_SCFS)
              /\ \A i \in 1..Len(user) :
                    /\ cli.options[2 * i + 1] = MountOption("CUSTOM", OPT_DASH_O)
                    /\ cli.options[2 * i + 2] = user[i]
    /\ \A x \in UserOptions :
          MountOptions(FuseOptions(<<x>>, <<>>)) = MountOptions(FuseOptions(<<>>, <<x>>))


\* run is blocked in recv, and an interrupt arrived since or the filesystem
\* object was dropped
QuitRequested ==
    /\ cli.stage = "waiting"
    /\ cli.interrupted \/ cli.fs = "dropped"

Returned == cli.stage = "returned"

\* C20: after a successful mount Cli::run blocks until a quit event arrives
\* and then returns: an interrupt sends one, and the drop of the filesystem
\* object sends one through its drop hook; run does not return before a quit
\* event was sent, it returns after the first, and a drop hook fired after
\* the receiver is gone does not fail.
C20_QuitLoop ==
    /\ [](Returned => cli.sent > 0)
    /\ [](Returned => cli.diag = "")
    /\ QuitRequested ~> Returned

\* As a daemon, run is blocked in recv after an interrupt for which no quit
\* event was sent
C20_Witness ==
    /\ cli.stage = "waiting"
    /\ cli.daemon
    /\ cli.interrupted
    /\ cli.sent = 0
    /\ cli.queue = 0
    /\ cli.pending = 0

\* What holds: run does not return before a quit event was sent, the drop
\* hook does not fail, and run returns after the drop of the filesystem
\* object and, in the foreground, after an interrupt
C20_QuitLoopForeground ==
    /\ [](Returned => cli.sent > 0)
    /\ [](Returned => cli.diag = "")
    /\ (QuitRequested /\ (~cli.daemon \/ cli.fs = "dropped")) ~> Returned

\* In the foreground, run returned after an interrupt, and the filesystem
\* object was dropped after the receiver had gone
C20_WitnessForeground ==
    /\ Returned
    /\ ~cli.daemon
    /\ cli.interrupted
    /\ cli.fs = "dropped"
    /\ ~cli.rx
    /\ cli.sent = 1

----------------------------------------------------------------------------
(* Entries of unsupported type during the scan *)

\* The nodes of the mirror that are neither directory, file nor symlink
OtherNodes(fs) == {n \in fs : n.kind = "other"}

\* The mirror as it would be without its entries of unsupported type
WithoutOthers(fs) ==
    {IF n.kind = "dir"
     THEN [n EXCEPT !.entries =
              SelectSeq(@, LAMBDA e : NodeAt(fs, Join(n.path, e)).kind # "other")]
     ELSE n : n \in fs \ OtherNodes(fs)}

\* The entries next to p that the scan of mode m gives a row
IndexedSiblings(m, fs, p) ==
    {n \in fs : /\ Len(n.path) = Len(p) /\ Parent(n.path) = Parent(p)
                /\ convert_filetype(n.kind) # "None"
                /\ (m = "cat" => FileName(n.path) # CONFIG_FILE_NAME)}

\* The scan of the mirror gives the result of the scan of the mirror without
\* its entries of unsupported type, for every run of the clock
ScanIgnoresOthers ==
    IF mode = "split"
    THEN \A ticks \in [1..(Cardinality(mirror) - 1) -> Ticks] :
            LET with == SplitNew(mirror, config, ClockStart, ticks)
                without == SplitNew(WithoutOthers(mirror), config, ClockStart, ticks)
            IN  with.db = without.db /\ with.panic = without.panic
                /\ with.clock = without.clock
    ELSE CatNew(mirror) = CatNew(WithoutOthers(mirror))

\* The mounted view does not show the path p
NotShown(p) ==
    \A r \in file_db : r.path = Parent(p) =>
        /\ IsError(Lookup(mode, mirror, file_db, config, config_json, r.ino,
                          FileName(p)), ENOENT)
        /\ LET listing == Readdir(mode, file_db, r.ino, 0,
                                  Cardinality(file_db) + 3)
           IN  listing.kind = "dir"
               /\ \A i \in 1..Len(listing.val) : listing.val[i].name # FileName(p)

\* C21: in both modes an entry of the mirror that is neither a directory, a
\* regular file nor a symlink gets no row, does not abort the scan (the scan
\* ends as the scan of the mirror without it ends), leaves its siblings
\* indexed, and is not shown by the mount
C21_SkipOthers ==
    (phase \in {"mounted", "panicked"} /\ origin = {}) =>
        /\ \A n \in OtherNodes(mirror) : ~\E r \in file_db : r.path = n.path
        /\ OtherNodes(mirror) # {} => ScanIgnoresOthers
        /\ phase = "mounted" =>
              \A n \in OtherNodes(mirror) :
                 /\ \A s \in IndexedSiblings(mode, mirror, n.path) :
                       \E r \in file_db : r.path = s.path
                 /\ NotShown(n.path)

C21_Witness ==
    /\ phase = "mounted" /\ mode = "split"
    /\ \E n \in OtherNodes(mirror) :
          /\ Cardinality(IndexedSiblings(mode, mirror, n.path)) >= 2
          /\ \A s \in IndexedSiblings(mode, mirror, n.path) :
                \E r \in file_db : r.path = s.path

C21_WitnessCat ==
    /\ phase = "mounted" /\ mode = "cat"
    /\ \E n \in OtherNodes(mirror) :
          /\ Cardinality(IndexedSiblings(mode, mirror, n.path)) >= 2
          /\ \A s \in IndexedSiblings(mode, mirror, n.path) :
                \E r \in file_db : r.path = s.path

----------------------------------------------------------------------------
(* The names of regular files in the Cat scan *)

\* "scfs." followed by exactly ten decimal digits
IsChunkName(name) ==
    /\ Len(name) = Len(SCFS_PREFIX) + 10
    /\ IsPrefix(SCFS_PREFIX, name)
    /\ \A i \in (Len(SCFS_PREFIX) + 1)..Len(name) : IsDigit(name[i])

\* The number a chunk name carries
ChunkNumber(name) == DigitsValue(Drop(name, Len(SCFS_PREFIX)))

\* scfs.1, scfs.00000000001, abcde0000000001, scfs.+000000001,
\* scfs.00000000a1, scfs., a
NameFewDigits == SCFS_PREFIX \o <<49>>
NameManyDigits == SCFS_PREFIX \o ZeroPad(<<49>>, 11)
NameOtherPrefix == <<97, 98, 99, 100, 101>> \o ZeroPad(<<49>>, 10)
NamePlusSign == SCFS_PREFIX \o <<43>> \o ZeroPad(<<49>>, 9)
NameNonDigit == SCFS_PREFIX \o ZeroPad(<<97, 49>>, 10)
NameNoDigits == SCFS_PREFIX
NameShort == NameA

OddNames ==
    {NameFewDigits, NameManyDigits, NameOtherPrefix, NamePlusSign, NameNonDigit,
     NameNoDigits, NameShort}

\* A mirror for CatFS whose directory a holds the regular files named names
NamedFiles(names) ==
    {DirNode(MIRROR, <<NameA, CONFIG_FILE_NAME>>),
     ConfigNode(ToJson([blocksize |-> 1])),
     DirNode(Join(MIRROR, NameA), names)}
    \cup {FileNode(Join(Join(MIRROR, NameA), names[i]), Bytes(i, 1)) :
             i \in 1..Len(names)}

NameMirrors ==
    {NamedFiles(<<ChunkFileName(i)>>) : i \in 0..1}
    \cup {NamedFiles(<<ChunkFileName(0), ChunkFileName(1)>>)}
    \cup {NamedFiles(<<n>>) : n \in OddNames}
    \cup {NamedFiles(<<ChunkFileName(0), n>>) : n \in OddNames}

InitNames ==
    /\ mode = "cat"
    /\ mirror \in NameMirrors
    /\ config = NoConfig
    /\ InitRest

NextNames ==
    \/ CatMount
    \/ LookupReq
    \/ GetattrReq
    \/ ReaddirReq

SpecNames == InitNames /\ [][NextNames]_vars

\* The regular files of the mirror that CatFS::populate looks at
ScannedFiles ==
    {n \in mirror : n.kind = "file" /\ FileName(n.path) # CONFIG_FILE_NAME}

IndexedAsChunk(n) == \E r \in file_db : r.path = n.path /\ r.part >= 1

\* C22: in the Cat scan a regular file gets part >= 1 if and only if its name
\* is "scfs." followed by exactly ten decimal digits, and then part is that
\* number plus 1; a regular file of any other name is not indexed as a chunk
C22_ChunkNames ==
    (mode = "cat" /\ phase = "mounted") =>
        \A n \in ScannedFiles :
           /\ IndexedAsChunk(n) <=> IsChunkName(FileName(n.path))
           /\ \A r \in file_db : r.path = n.path /\ r.part >= 1 =>
                 r.part = ChunkNumber(FileName(n.path)) + 1

C22_Witness ==
    /\ mode = "cat" /\ phase = "mounted"
    /\ \E n \in ScannedFiles :
          ~IsChunkName(FileName(n.path)) /\ IndexedAsChunk(n)

\* C22 (chunk names only): a regular file named "scfs." and ten digits gets
\* the part of its number plus 1, and the scan completes when every regular
\* file has such a name
C22_ProperChunkNames ==
    (mode = "cat" /\ phase # "start"
     /\ \A n \in ScannedFiles : IsChunkName(FileName(n.path))) =>
        /\ phase # "panicked"
        /\ \A n \in ScannedFiles :
              \E r \in file_db :
                 r.path = n.path /\ r.part = ChunkNumber(FileName(n.path)) + 1

C22_WitnessProper ==
    /\ mode = "cat" /\ phase = "mounted"
    /\ Cardinality(ScannedFiles) = 2
    /\ \A n \in ScannedFiles : IsChunkName(FileName(n.path)) /\ IndexedAsChunk(n)

\* A regular file whose name is too short or carries no number ends the scan
C22_OddNamePanics ==
    (mode = "cat" /\ phase = "panicked") =>
        \E n \in ScannedFiles : ~CatPart(FileName(n.path)).ok

C22_WitnessPanics == mode = "cat" /\ phase = "panicked" /\ panic_msg = "unwrap"

----------------------------------------------------------------------------
(* The entries readdir adds by hand *)

\* The readdir request that was answered last, and its directory's row
ListingAnswered ==
    /\ request.op = "readdir" /\ reply.kind = "dir"
    /\ HasIno(file_db, request.ino)

\* The entries that precede the directory's children in the answer to
\* readdir(ino, offset)
ExpectedSynthetic(m, row, offset) ==
    LET dot == IF offset < 1
               THEN <<DirEntry(row.ino, 1, "Directory", DOT)>> ELSE <<>>
        dotdot == IF offset < 2
                  THEN <<DirEntry(IF row.parent_ino = INO_OUTSIDE THEN row.ino
                                  ELSE row.parent_ino, 2, "Directory", DOTDOT)>>
                  ELSE <<>>
        cfg == IF m = "split" /\ row.ino = INO_ROOT /\ offset < 3
               THEN <<DirEntry(INO_CONFIG, 3, "RegularFile", CONFIG_FILE_NAME)>>
               ELSE <<>>
    IN  dot \o dotdot \o cfg

\* The entry e is made from a row of the index below the directory ino
IsChildEntry(e, ino) ==
    \E r \in file_db : r.parent_ino = ino /\ r.ino = e.ino /\ FileName(r.path) = e.name

\* C23: readdir(ino, offset), for the offsets the kernel sends (0 and the
\* cookies of earlier entries), answers first "." (cookie 1, the directory's
\* inode) iff offset < 1, then ".." (cookie 2, parent_ino, or the own inode at
\* the root) iff offset < 2, then, in Split for the root only, .scfs_config
\* (inode CONFIG, RegularFile, cookie 3) iff offset < 3; every entry after
\* these is a child row, so Cat adds no entry of its own at cookie 3
C23_Synthetic ==
    ListingAnswered =>
        LET row == RowByIno(file_db, request.ino)
            expected == ExpectedSynthetic(mode, row, request.offset)
            n == Len(expected)
        IN  /\ Len(reply.val) >= n
            /\ SubSeq(reply.val, 1, n) = expected
            /\ \A i \in (n + 1)..Len(reply.val) :
                  IsChildEntry(reply.val[i], request.ino)
            /\ mode = "cat" =>
                  \A i \in 1..Len(reply.val) :
                     reply.val[i].cookie = 3 => IsChildEntry(reply.val[i], request.ino)

\* the listing of the Split root from 0: ".", "..", .scfs_config, a child
C23_Witness ==
    /\ ListingAnswered /\ mode = "split"
    /\ request.ino = INO_ROOT /\ request.offset = 0
    /\ Len(reply.val) = 4
    /\ reply.val[3].ino = INO_CONFIG

\* a listing of a Cat subdirectory from 1: "..", then a child at cookie 3
C23_WitnessCat ==
    /\ ListingAnswered /\ mode = "cat"
    /\ request.ino # INO_ROOT /\ request.offset = 1
    /\ Len(reply.val) >= 2
    /\ reply.val[1].name = DOTDOT /\ reply.val[2].cookie = 3

----------------------------------------------------------------------------
(* readdir into reply buffers of every capacity *)

\* readdir with a reply buffer that holds cap entries, cap from 0
ReaddirAny ==
    /\ phase = "mounted"
    /\ \E ino \in DirInos, offset \in 0..MaxCookie, cap \in 0..MaxCap :
          Serve(Request("readdir", ino, 0, <<>>, 0, offset, cap),
                Readdir(mode, file_db, ino, offset, cap))
    /\ UNCHANGED <<cli, answers, issued, mode, mirror, origin, config, config_json, panic_msg, file_db,
                   file_handles, next_fh, clock, kernel_fds, nopen, workers>>

ListingSplitInputs ==
    {[mirror |-> SplitTree(1, afirst), config |-> [blocksize |-> 1]] :
        afirst \in BOOLEAN}
ListingCatMirrors == {CatTree(1, 1)}

InitListing ==
    /\ \/ /\ mode = "split"
          /\ \E inp \in ListingSplitInputs : mirror = inp.mirror /\ config = inp.config
       \/ /\ mode = "cat"
          /\ mirror \in ListingCatMirrors
          /\ config = NoConfig
    /\ InitRest

NextListing ==
    \/ SplitMount
    \/ CatMount
    \/ ReaddirAny

SpecListing == InitListing /\ [][NextListing]_vars

\* Everything readdir(ino, offset) has to add, into a buffer never full
Unbounded(ino, offset) ==
    Readdir(mode, file_db, ino, offset, Cardinality(file_db) + 3).val

\* A readdir was sent whose buffer is full before everything is added
BufferFilled ==
    /\ request.op = "readdir"
    /\ Len(Unbounded(request.ino, request.offset)) > request.size

\* C24: whenever adding an entry to the reply buffer of readdir signals
\* "buffer full", for an entry added by hand or for a child row and at every
\* capacity, the call adds nothing more and replies OK with the entries
\* added so far; it does not fail and the filesystem keeps running
C24_BufferFull ==
    BufferFilled =>
        /\ reply.kind = "dir"
        /\ reply.val = Take(Unbounded(request.ino, request.offset), request.size)
        /\ phase = "mounted"

\* the buffer is full at an entry added by hand
C24_Witness ==
    /\ BufferFilled
    /\ request.size < Len(ExpectedSynthetic(mode, RowByIno(file_db, request.ino),
                                            request.offset))

\* C24 (child rows): when the buffer holds the entries added by hand and is
\* full at a child row, the call replies OK with the entries added so far
C24_BufferFullAtChild ==
    (BufferFilled
     /\ request.size >= Len(ExpectedSynthetic(mode, RowByIno(file_db, request.ino),
                                              request.offset))) =>
        /\ reply.kind = "dir"
        /\ reply.val = Take(Unbounded(request.ino, request.offset), request.size)
        /\ phase = "mounted"

C24_WitnessAtChild ==
    /\ BufferFilled /\ reply.kind = "dir"
    /\ Len(reply.val) = request.size
    /\ request.size > Len(ExpectedSynthetic(mode, RowByIno(file_db, request.ino),
                                            request.offset))

----------------------------------------------------------------------------
(* The chunk paths of a Cat handle *)

\* The handles of concatenated files that the kernel holds
CatHandles == {fd \in kernel_fds : mode = "cat" /\ fd[1] \in DOMAIN file_handles}

\* The names of the directory at path p in the order the walk met them
WalkOrder(p) == NodeAt(mirror, p).entries

----------------------------------------------------------------------------
(* Concurrent reads: the dispatcher, the read workers, opens and releases *)

\* The reads of a concurrent session
MaxReads == 2

\* What the session knows of one read request: the replies sent for it and
\* who sent them; expected is the reply of the read run to its end at once,
\* before anything else is dispatched
Answer(req, replies, by, expected) ==
    [req |-> req, replies |-> replies, by |-> by, expected |-> expected]

\* The worker of SplitFS::read or CatFS::read run to its end
WorkerReply(w) ==
    IF mode = "split" THEN SplitWorker(mirror, w) ELSE CatWorker(mirror, w)

\* read(ino, fh, offset, size) through a handle the kernel holds, dispatched
\* while the workers of earlier reads may still run.  A panic of the
\* dispatcher ends the session without a reply from the filesystem.
ReadAsync ==
    /\ phase = "mounted"
    /\ Len(answers) < MaxReads
    /\ \E fd \in kernel_fds, offset \in {0}, size \in {0, 1} :
          LET req == Request("read", fd[2], 0, <<>>, fd[1], offset, size)
              id == Len(answers) + 1
              out == IF mode = "split" THEN SplitRead(file_handles, config_json, req)
                     ELSE CatRead(mirror, file_db, config, file_handles, req)
              spawned == out.spawn # <<>>
          IN  /\ workers' = IF spawned
                            THEN Append(workers, out.spawn[1] @@ [id |-> id])
                            ELSE workers
              /\ answers' = Append(answers,
                     IF spawned
                     THEN Answer(req, <<>>, "worker", WorkerReply(out.spawn[1]))
                     ELSE IF out.reply.kind = "panic"
                     THEN Answer(req, <<>>, "nobody", out.reply)
                     ELSE Answer(req, <<out.reply>>, "dispatcher", out.reply))
              /\ Serve(req, out.reply)
    /\ UNCHANGED <<cli, issued, mode, mirror, origin, config, config_json, panic_msg,
                   file_db, file_handles, next_fh, clock, kernel_fds, nopen>>

\* One of the read workers runs to its end and sends its reply; the thread
\* lives on when the dispatcher is gone
WorkerAsync ==
    /\ \E i \in 1..Len(workers) :
          LET w == workers[i]
              rep == WorkerReply(w)
          IN  /\ workers' = SubSeq(workers, 1, i - 1)
                            \o SubSeq(workers, i + 1, Len(workers))
              /\ answers' = [answers EXCEPT ![w.id].replies = Append(@, rep)]
              /\ request' = w.req
              /\ reply' = rep
    /\ UNCHANGED <<cli, issued, mode, mirror, origin, config, config_json, phase,
                   panic_msg, file_db, file_handles, next_fh, clock, kernel_fds, nopen>>

\* An open while reads are in flight; the session opens as many handles as
\* the view has regular files
OpenAsync ==
    /\ phase = "mounted"
    /\ nopen < Cardinality(FileInos \ {INO_CONFIG})
    /\ \E ino \in FileInos : OpenStep(ino)

AsyncSplitInputs == {[mirror |-> SplitOne(2), config |-> [blocksize |-> 1]]}
AsyncCatMirrors == {CatTree(1, 1)}

\* The filesystem object constructed over one of the mirrors, nothing
\* requested yet
Constructed(split_inputs, cat_mirrors) ==
    /\ \/ /\ mode = "split"
          /\ \E inp \in split_inputs :
                LET st == SplitNew(inp.mirror, inp.config, ClockStart,
                                   [i \in 1..(Cardinality(inp.mirror) - 1) |-> 1])
                IN  /\ mirror = inp.mirror /\ config = inp.config
                    /\ file_db = st.db /\ clock = st.clock
                    /\ config_json = ToJson(inp.config)
       \/ /\ mode = "cat"
          /\ \E m \in cat_mirrors :
                /\ mirror = m /\ config = CatNew(m).config
                /\ file_db = CatNew(m).db /\ clock = ClockStart
                /\ config_json = <<>>
    /\ phase = "mounted"
    /\ origin = {}
    /\ panic_msg = ""
    /\ file_handles = <<>>
    /\ next_fh = 0
    /\ kernel_fds = {}
    /\ issued = <<>>
    /\ nopen = 0
    /\ request = NoRequest
    /\ reply = NoReply
    /\ workers = <<>>
    /\ cli = NoCli
    /\ answers = <<>>

InitAsync == Constructed(AsyncSplitInputs, AsyncCatMirrors)

NextAsync ==
    \/ OpenAsync
    \/ ReadAsync
    \/ WorkerAsync
    \/ ReleaseReq

\* A spawned thread is scheduled until it ends (its end takes it out of
\* workers)
SpecAsync == InitAsync /\ [][NextAsync]_vars /\ WF_workers(WorkerAsync)


ReadIds == 1..MaxReads

Dispatched(id) == Len(answers) >= id

\* The read id has its one reply
AnsweredOnce(id) == Dispatched(id) /\ Len(answers[id].replies) = 1

\* The reads the dispatcher answers itself: CONFIG in Split, an effective
\* size of zero in Cat
AnsweredAtOnce(req) ==
    IF mode = "split" THEN req.ino = INO_CONFIG
    ELSE LET file_size == CatAttr(mirror, file_db, RowByIno(file_db, req.ino)).size
         IN  Min(req.size, file_size - Min(req.offset, file_size)) = 0

SharedHandleId ==
    \E i, j \in 1..Len(issued) : i # j /\ issued[i] = issued[j]

\* C26 (distinct handle ids): when no two opens returned the same handle id,
\* every read request gets exactly one reply, from the dispatcher or from its
\* worker, in every interleaving
C26_ExactlyOneReplyFresh ==
    /\ [](\A id \in ReadIds : (Dispatched(id) /\ ~SharedHandleId) =>
             /\ Len(answers[id].replies) <= 1
             /\ answers[id].by # "nobody"
             /\ answers[id].by = "dispatcher" <=> AnsweredAtOnce(answers[id].req)
             /\ answers[id].by = "dispatcher" => Len(answers[id].replies) = 1)
    /\ \A id \in ReadIds :
          (Dispatched(id) /\ ~SharedHandleId) ~> AnsweredOnce(id)

\* two reads in flight at once, then both answered
C26_WitnessFresh ==
    /\ ~SharedHandleId
    /\ Len(answers) = MaxReads
    /\ \A id \in ReadIds : AnsweredOnce(id) /\ answers[id].by = "worker"



\* The replies r and e are the same reply
SameReply(r, e) == r.kind = e.kind /\ r.val = e.val

\* The read id was answered by its worker
AnsweredByWorker(id) ==
    /\ Dispatched(id) /\ answers[id].by = "worker"
    /\ answers[id].replies # <<>>

C27_WitnessReopened ==
    \E id \in ReadIds :
       /\ AnsweredByWorker(id) /\ mode = "split"
       /\ answers[id].req.fh \in DOMAIN file_handles
       /\ \E fd \in kernel_fds :
             /\ fd[1] = answers[id].req.fh /\ fd[2] # answers[id].req.ino
             /\ file_handles[fd[1]].start # (RowByIno(file_db, answers[id].req.ino).part - 1)

----------------------------------------------------------------------------
(* What the operations change *)

\* A file of one byte and a symlink to it; for CatFS two files of one chunk
SplitMixed ==
    {DirNode(MIRROR, <<NameA, NameL>>),
     FileNode(Join(MIRROR, NameA), Bytes(1, 1)),
     LinkNode(Join(MIRROR, NameL), TargetA)}
CatMixed ==
    {DirNode(MIRROR, <<NameA, NameB, NameL, CONFIG_FILE_NAME>>),
     ConfigNode(ToJson([blocksize |-> 1])),
     LinkNode(Join(MIRROR, NameL), TargetA)}
    \cup ChunkDir(Join(MIRROR, NameA), Bytes(1, 1), 1, FALSE)
    \cup ChunkDir(Join(MIRROR, NameB), Bytes(2, 1), 1, FALSE)

InitSession ==
    Constructed({[mirror |-> SplitMixed, config |-> [blocksize |-> 1]]}, {CatMixed})

\* Every operation on the constructed filesystem
NextSession ==
    \/ LookupReq
    \/ GetattrReq
    \/ ReadlinkReq
    \/ ReaddirReq
    \/ OpenAsync
    \/ ReadReq
    \/ WorkerDone
    \/ ReleaseReq

SpecSession == InitSession /\ [][NextSession]_vars

\* The handle tables g and h hold the same entries but for the keys in keys
SameBut(g, h, keys) ==
    /\ DOMAIN g \ keys = DOMAIN h \ keys
    /\ \A k \in DOMAIN g \ keys : g[k] = h[k]

\* The operation of a step is the one of the request it serves (a worker
\* serves the read it was spawned for)
Serves(ops) == request'.op \in ops

\* C28: once the filesystem object is constructed no operation changes the
\* index; lookup, getattr, readlink, readdir and read (dispatcher and worker)
\* leave the handle table as it is; open changes it by the one entry it
\* inserts under the id it returns (none for CONFIG) and release by the at
\* most one entry it removes
C28_Frame ==
    [][/\ file_db' = file_db
       /\ Serves({"lookup", "getattr", "readlink", "readdir", "read"}) =>
             file_handles' = file_handles
       /\ Serves({"open"}) =>
             /\ SameBut(file_handles', file_handles, {reply'.val})
             /\ Cardinality(DOMAIN file_handles')
                   <= Cardinality(DOMAIN file_handles) + 1
             /\ request'.ino # INO_CONFIG => reply'.val \in DOMAIN file_handles'
             /\ (mode = "split" /\ request'.ino = INO_CONFIG) =>
                   file_handles' = file_handles
       /\ Serves({"release"}) =>
             /\ SameBut(file_handles', file_handles, {request'.fh})
             /\ DOMAIN file_handles' \subseteq DOMAIN file_handles
       /\ Serves({"lookup", "getattr", "readlink", "readdir", "read", "open",
                  "release"})]_vars

\* reads, listings and lookups were served with two handles in the table
C28_Witness ==
    /\ Cardinality(DOMAIN file_handles) = 2
    /\ request.op \in {"read", "readdir", "lookup", "getattr", "readlink"}
    /\ reply.kind \in {"data", "dir", "entry", "attr"}

\* one of two handles was released
C28_WitnessRelease ==
    /\ request.op = "release" /\ nopen = 2
    /\ Cardinality(DOMAIN file_handles) = 1

----------------------------------------------------------------------------
(* open of every row of a SplitFS *)

\* open of an inode of the index, whatever its row is
OpenAnyRow ==
    /\ phase = "mounted"
    /\ nopen < MaxOpens
    /\ \E ino \in Inos : OpenStep(ino)

OpenRowsInputs ==
    {[mirror |-> m, config |-> [blocksize |-> b]] :
        m \in {SplitTree(MaxSize, TRUE), SplitLinks(TargetA)}, b \in Blocksizes}

InitOpenRows == Constructed(OpenRowsInputs, {})

NextOpenRows ==
    \/ OpenAnyRow
    \/ ReleaseReq

SpecOpenRows == InitOpenRows /\ [][NextOpenRows]_vars

\* The request answered last is an open of the row of an indexed inode
OpenedRow ==
    /\ mode = "split" /\ request.op = "open"
    /\ request.ino # INO_CONFIG /\ HasIno(file_db, request.ino)

\* The handle that open has to store for the row: the path of the row's
\* parent, start = (part - 1) * blocksize, end = start + blocksize
HandleOfRow(row) ==
    FileHandle(RowByIno(file_db, row.parent_ino).path,
               (row.part - 1) * config.blocksize,
               (row.part - 1) * config.blocksize + config.blocksize)

\* The open was answered with a handle that holds what the row asks for, and
\* start and end are the numbers themselves: in the u64 range, not wrapped
StoredAsComputed ==
    LET row == RowByIno(file_db, request.ino)
    IN  /\ reply.kind = "opened" /\ phase = "mounted"
        /\ reply.val \in DOMAIN file_handles
        /\ HasIno(file_db, row.parent_ino)
        /\ file_handles[reply.val] = HandleOfRow(row)
        /\ file_handles[reply.val].start >= 0
        /\ file_handles[reply.val].end >= file_handles[reply.val].start

\* C29: in Split, open of every indexed inode but CONFIG stores a handle with
\* the path of the row's parent, start = (part - 1) * blocksize and
\* end = start + blocksize, computed without underflow or overflow, also for
\* the rows with part = 0 (directories, the root)
C29_OpenHandle == OpenedRow => StoredAsComputed

\* open of a row with part = 0
C29_Witness ==
    /\ OpenedRow
    /\ RowByIno(file_db, request.ino).part = 0
    /\ ~StoredAsComputed

\* C29 (chunks): open of a chunk, a row with part >= 1, stores the path of
\* the chunk's file, start = (part - 1) * blocksize and end = start + blocksize
C29_OpenChunkHandle ==
    (OpenedRow /\ RowByIno(file_db, request.ino).part >= 1) => StoredAsComputed

C29_WitnessChunk ==
    /\ OpenedRow /\ StoredAsComputed
    /\ RowByIno(file_db, request.ino).part = 2

----------------------------------------------------------------------------
(* The config file of a SplitFS *)

\* The step serves the operation op on the inode CONFIG of a SplitFS
ServesConfig(op) ==
    mode = "split" /\ request'.op = op /\ request'.ino = INO_CONFIG

\* C30: in Split the inode CONFIG is served without handle state: open(CONFIG)
\* replies success and adds no entry to the handle table; read(CONFIG) is
\* answered by the dispatcher, with the serialized config held in memory,
\* whatever the handle table holds and without a worker that opens a file;
\* release on CONFIG replies OK and leaves the handle table as it is
C30_ConfigStateless ==
    [][/\ ServesConfig("open") =>
             /\ reply'.kind = "opened" /\ phase' = "mounted"
             /\ file_handles' = file_handles
       /\ ServesConfig("read") =>
             /\ reply'.kind = "data" /\ reply'.val = ToJson(config)
             /\ workers' = workers /\ phase' = "mounted"
             /\ file_handles' = file_handles
             /\ request'.fh \notin DOMAIN file_handles
       /\ ServesConfig("release") =>
             /\ reply'.kind = "ok" /\ phase' = "mounted"
             /\ file_handles' = file_handles]_vars

\* read(CONFIG) answered while the handle table holds the handle of a chunk
C30_Witness ==
    /\ mode = "split" /\ request.op = "read" /\ request.ino = INO_CONFIG
    /\ reply.kind = "data" /\ reply.val = config_json
    /\ DOMAIN file_handles # {}

\* release on CONFIG with a handle in the table
C30_WitnessRelease ==
    /\ mode = "split" /\ request.op = "release" /\ request.ino = INO_CONFIG
    /\ reply.kind = "ok"
    /\ DOMAIN file_handles # {}

----------------------------------------------------------------------------
(* The virtual directories of a CatFS *)

\* The rows CatFS::populate inserted, as they are before the sweep
ScannedRows ==
    CatPopulate([db |-> {}, next_ino |-> INO_FIRST_FREE, panic |-> FALSE],
                mirror, MIRROR, INO_OUTSIDE).db

\* The row is the parent of a row with part # 0
HasChunkChild(db, r) == \E c \in db : c.part # 0 /\ c.parent_ino = r.ino

\* C31: after the construction of a CatFS a row is vdir if and only if a row
\* with part # 0 has it as parent_ino, every vdir row has part = 0, and no
\* row is vdir before the sweep
C31_Vdir ==
    MountedCat =>
       /\ \A r \in file_db : r.vdir <=> HasChunkChild(file_db, r)
       /\ \A r \in file_db : r.vdir => r.part = 0
       /\ \A r \in ScannedRows : ~r.vdir
       /\ file_db = CatSweep(ScannedRows)

\* a CatFS with a vdir row, a directory that is none and chunk rows
C31_Witness ==
    /\ MountedCat
    /\ \E r, d, c \in file_db :
          /\ r.vdir /\ c.parent_ino = r.ino /\ c.part # 0
          /\ ~d.vdir /\ d.part = 0 /\ ~d.symlink /\ d.ino # INO_ROOT
    /\ \E r \in ScannedRows : HasChunkChild(ScannedRows, r)

----------------------------------------------------------------------------
(* Cat mirrors that no SplitFS view was copied into *)

\* A chunk directory that also holds a symbolic link
CatVdirLink ==
    {DirNode(MIRROR, <<CONFIG_FILE_NAME, NameA>>),
     ConfigNode(ToJson([blocksize |-> 1])),
     DirNode(Join(MIRROR, NameA), <<NameL, ChunkFileName(0)>>),
     LinkNode(Join(Join(MIRROR, NameA), NameL), TargetBroken),
     FileNode(Join(Join(MIRROR, NameA), ChunkFileName(0)), Bytes(1, 1))}

\* A chunk directory that also holds a directory
CatVdirDir ==
    {DirNode(MIRROR, <<CONFIG_FILE_NAME, NameA>>),
     ConfigNode(ToJson([blocksize |-> 1])),
     DirNode(Join(MIRROR, NameA), <<ChunkFileName(0), NameD>>),
     DirNode(Join(Join(MIRROR, NameA), NameD), <<>>),
     FileNode(Join(Join(MIRROR, NameA), ChunkFileName(0)), Bytes(1, 1))}

\* A chunk file directly in the mirror's root
CatRootChunk ==
    {DirNode(MIRROR, <<CONFIG_FILE_NAME, ChunkFileName(0)>>),
     ConfigNode(ToJson([blocksize |-> 1])),
     FileNode(Join(MIRROR, ChunkFileName(0)), Bytes(1, 1))}

\* A config file with the blocksize 0
CatZeroBlocksize ==
    {DirNode(MIRROR, <<NameA, CONFIG_FILE_NAME>>), ConfigNode(ToJson([blocksize |-> 0]))}
    \cup ChunkDir(Join(MIRROR, NameA), Bytes(1, 1), 1, FALSE)

ForeignCatMirrors ==
    {CatVdirLink, CatVdirDir, CatRootChunk, CatZeroBlocksize, CatRagged,
     CatTree(2, 1), CatLinks(TargetA, 1)}

ForeignSplitInputs ==
    {[mirror |-> m, config |-> [blocksize |-> b]] :
        m \in {SplitTree(MaxSize, TRUE), SplitLinks(TargetA), SplitRootConfig},
        b \in Blocksizes}

InitForeign == Constructed(ForeignSplitInputs, ForeignCatMirrors)

\* Metadata requests
NextForeign ==
    \/ LookupReq
    \/ GetattrReq
    \/ ReaddirReq

SpecForeign == InitForeign /\ [][NextForeign]_vars

\* Reads through one open handle of a CatFS
InitForeignIO == Constructed({}, ForeignCatMirrors)

NextForeignIO ==
    \/ GetattrReq
    \/ OpenReq
    \/ ReadReq
    \/ WorkerDone
    \/ ReleaseReq

SpecForeignIO == InitForeignIO /\ [][NextForeignIO]_vars

\* The rows of the chunk files of the inode ino, in the order of the index
ChunkRows(db, ino) ==
    LET IsChunk(r) == r.part # 0 IN SelectSeq(ChildRows(db, ino), IsChunk)

\* The sums of the sizes and of the blocks of the files of the rows
SizeSum(fs, rows) ==
    SumSeq([i \in 1..Len(rows) |-> MetaSize(NodeAt(fs, rows[i].path))])
BlocksSum(fs, rows) ==
    SumSeq([i \in 1..Len(rows) |-> MetaBlocks(NodeAt(fs, rows[i].path))])

\* getattr of the row reports its inode and the sums over the rows parts
VdirAttrOk(row, parts) ==
    LET rep == Getattr(mode, mirror, file_db, config, config_json, row.ino)
    IN  /\ rep.kind = "attr"
        /\ rep.val.ino = row.ino
        /\ rep.val.size = SizeSum(mirror, parts)
        /\ rep.val.blocks = BlocksSum(mirror, parts)

\* The read dispatched last was clamped against the size total: with nothing
\* left of the range it is answered with no bytes, else its worker gets the
\* clamped offset and size and answers no more than that
ReadClampedOk(total) ==
    request.op = "read" =>
       LET offset == Min(request.offset, total)
           size == Min(request.size, total - offset)
       IN  /\ size = 0 => IsData(reply, <<>>)
           /\ reply.kind = "none" =>
                 \E i \in 1..Len(workers) :
                    /\ workers[i].req = request
                    /\ workers[i].offset = offset /\ workers[i].size = size
           /\ reply.kind = "data" => Len(reply.val) <= size

CatServing == mode = "cat" /\ phase \in {"mounted", "crashed"}

\* a vdir all of whose children are chunk files
PureVdir(r) ==
    r.vdir /\ \A c \in file_db : c.parent_ino = r.ino => c.part # 0

\* The row of the inode of the request dispatched last
RequestRow == RowByIno(file_db, request.ino)

C32_WitnessRead ==
    /\ CatServing
    /\ request.op = "read" /\ reply.kind = "data"
    /\ Len(ChunkRows(file_db, request.ino)) > 1
    /\ Len(reply.val) > 0 /\ Len(reply.val) < request.size
    /\ request.offset > 0

----------------------------------------------------------------------------
(* The root of the index *)

\* Mirrors whose root is no directory
RootIsOther == {OtherNode(MIRROR)}
RootIsFile == {FileNode(MIRROR, Bytes(1, 2))}
RootIsLink == {LinkNode(MIRROR, TargetA)}

RootSplitInputs ==
    {[mirror |-> m, config |-> [blocksize |-> b]] :
        m \in {RootIsOther, RootIsFile, RootIsLink, SplitEmpty,
               SplitTree(MaxSize, TRUE), SplitLinks(TargetA)},
        b \in Blocksizes}

RootCatMirrors ==
    {CatTree(MaxSize, b) : b \in Blocksizes}
    \cup {CatRootChunk, CatVdirDir, CatLinks(TargetA, 1),
          CatEmpty(ToJson([blocksize |-> 1]))}

InitRoots ==
    /\ \/ /\ mode = "split"
          /\ \E inp \in RootSplitInputs : mirror = inp.mirror /\ config = inp.config
       \/ /\ mode = "cat"
          /\ mirror \in RootCatMirrors
          /\ config = NoConfig
    /\ InitRest

\* getattr of the mount's root, the kernel's first request
GetattrRoot ==
    /\ phase = "mounted"
    /\ Serve(Request("getattr", INO_ROOT, 0, <<>>, 0, 0, 0),
             Getattr(mode, mirror, file_db, config, config_json, INO_ROOT))
    /\ UNCHANGED <<cli, answers, issued, mode, mirror, origin, config, config_json, panic_msg, file_db,
                   file_handles, next_fh, clock, kernel_fds, nopen, workers>>

NextRoots ==
    \/ SplitMount
    \/ CatMount
    \/ GetattrRoot
    \/ GetattrReq
    \/ ReaddirReq

SpecRoots == InitRoots /\ [][NextRoots]_vars

\* The scan has run to its end
Scanned == phase \in {"mounted", "crashed"}

\* The rows whose parent is outside the index
OutsideRows == {r \in file_db : r.parent_ino = INO_OUTSIDE}

\* One row has parent_ino = OUTSIDE, it is the row of the mirror's root with
\* the inode ROOT, and the parent of every other row is another row
OneRoot ==
    /\ Cardinality(OutsideRows) = 1
    /\ \A r \in OutsideRows : r.ino = INO_ROOT /\ r.path = MIRROR
    /\ \A r \in file_db \ OutsideRows :
          \E p \in file_db : p # r /\ p.ino = r.parent_ino

\* C33: in both modes, after the scan exactly one row of the index has
\* parent_ino = OUTSIDE (0), that row has ino = ROOT (1) and is the mirror's
\* root, and the parent_ino of every other row is the inode of another row
C33_OneRoot == Scanned => OneRoot

\* a SplitFS constructed over a mirror that is neither a directory, a file
\* nor a symlink: the index has no row
C33_Witness ==
    /\ Scanned /\ mode = "split"
    /\ convert_filetype(NodeAt(mirror, MIRROR).kind) = "None"
    /\ file_db = {}

\* C33 for the mirrors whose root is a directory, a regular file or a symlink
C33_OneRootSupported ==
    (Scanned /\ convert_filetype(NodeAt(mirror, MIRROR).kind) # "None") => OneRoot

\* an index with rows three levels deep
C33_WitnessSupported ==
    /\ Scanned
    /\ \E r, p \in file_db :
          /\ r.parent_ino = p.ino /\ p.parent_ino # INO_OUTSIDE
          /\ p.parent_ino # INO_ROOT

----------------------------------------------------------------------------
(* The length of the answer to a read *)

\* A read was answered with bytes
ReadData == request.op = "read" /\ reply.kind = "data"

\* C34: the answer to a read holds at most the size bytes that were asked
\* for, for every inode, the inode CONFIG of a SplitFS too, and for every
\* offset; a read of CONFIG at an offset > 0 or with a size below the length
\* of the serialized config does not return the whole config
C34_ReadBounded ==
    ReadData =>
       /\ Len(reply.val) <= request.size
       /\ (mode = "split" /\ request.ino = INO_CONFIG) =>
             reply.val = Slice(config_json, request.offset,
                               request.offset + request.size)

\* a read of CONFIG at an offset > 0 with a size below the length of the
\* config, answered with the whole config
C34_Witness ==
    /\ ReadData /\ mode = "split" /\ request.ino = INO_CONFIG
    /\ request.offset > 0 /\ request.size < Len(config_json)
    /\ reply.val = config_json

\* C34 for the inodes other than CONFIG
C34_ReadBoundedFiles ==
    (ReadData /\ ~(mode = "split" /\ request.ino = INO_CONFIG)) =>
       Len(reply.val) <= request.size

\* a read of a chunk and a read of a concatenated file answered with size
\* bytes, fewer than the file holds after the offset
C34_WitnessFiles ==
    /\ ReadData /\ request.ino # INO_CONFIG
    /\ request.size > 0 /\ Len(reply.val) = request.size
    /\ request.offset > 0

----------------------------------------------------------------------------
(* readdir and lookup *)

\* lookup(d, name) of every entry but "." and ".." of the full listing of d
\* succeeds with the inode the entry has, and no name is listed twice
ListingLooksUp(d) ==
    LET listing == FullListing(d)
    IN  \A i \in 1..Len(listing) :
           listing[i].name \notin {DOT, DOTDOT} =>
              /\ LET rep == Lookup(mode, mirror, file_db, config, config_json,
                                   d, listing[i].name)
                 IN  rep.kind = "entry" /\ rep.val.ino = listing[i].ino
              /\ \A j \in 1..Len(listing) :
                    listing[j].name = listing[i].name => j = i

\* C35: readdir and lookup agree: for every directory d and every entry
\* (name, inode) other than "." and ".." that readdir(d) emits, lookup(d, name)
\* succeeds and returns that inode, and no name occurs twice in one full
\* listing; the root of a SplitFS whose mirror's root holds an entry named
\* .scfs_config is included
C35_ReaddirLookup ==
    phase = "mounted" => \A d \in DirInos : ListingLooksUp(d)

\* the root of a SplitFS whose mirror holds .scfs_config was listed: the name
\* is there twice, with two inodes
C35_Witness ==
    /\ MountedSplit
    /\ Exists(mirror, Join(MIRROR, CONFIG_FILE_NAME))
    /\ request.op = "readdir" /\ request.ino = INO_ROOT /\ request.offset = 0
    /\ reply.kind = "dir"
    /\ \E i, j \in 1..Len(reply.val) :
          /\ i # j /\ reply.val[i].name = reply.val[j].name
          /\ reply.val[i].ino # reply.val[j].ino

\* C35 for every directory but the root of a SplitFS whose mirror's root
\* holds an entry named .scfs_config
C35_ReaddirLookupOtherNames ==
    phase = "mounted" =>
       \A d \in DirInos :
          ~(mode = "split" /\ d = INO_ROOT
            /\ Exists(mirror, Join(MIRROR, CONFIG_FILE_NAME)))
          => ListingLooksUp(d)

\* a name of a listing was looked up in the directory listed
C35_WitnessOtherNames ==
    /\ phase = "mounted"
    /\ request.op = "lookup" /\ reply.kind = "entry"
    /\ \E i \in 1..Len(FullListing(request.parent)) :
          /\ FullListing(request.parent)[i].name = request.name
          /\ FullListing(request.parent)[i].ino = reply.val.ino
          /\ i > 3

----------------------------------------------------------------------------
(* The kinds readdir and getattr report *)

\* getattr of the inode of every entry of the full listing of d reports the
\* kind the entry has
KindsAgree(d) ==
    LET listing == FullListing(d)
    IN  \A i \in 1..Len(listing) :
           LET rep == Getattr(mode, mirror, file_db, config, config_json,
                              listing[i].ino)
           IN  rep.kind = "attr" /\ rep.val.kind = listing[i].kind

\* C36: the kind readdir reports for an entry (Symlink for a symlink, else
\* RegularFile for part > 0 in Split and for a vdir in Cat, else Directory)
\* is the kind getattr reports for the same inode, in both modes
C36_KindsAgree ==
    phase = "mounted" => \A d \in DirInos : KindsAgree(d)

\* a vdir listed as a regular file, for which getattr reported another kind
C36_Witness ==
    /\ MountedCat
    /\ request.op = "getattr" /\ reply.kind = "attr"
    /\ RequestRow.vdir /\ reply.val.kind # "RegularFile"
    /\ RequestRow.parent_ino # INO_OUTSIDE
    /\ \E i \in 1..Len(FullListing(RequestRow.parent_ino)) :
          LET e == FullListing(RequestRow.parent_ino)[i]
          IN  e.ino = request.ino /\ e.kind = "RegularFile"

\* C36 for SplitFS, and for the CatFS all of whose vdirs hold chunk files only
C36_KindsAgreeChunkDirs ==
    (phase = "mounted" /\ (mode = "cat" => \A r \in file_db : r.vdir => PureVdir(r)))
    => \A d \in DirInos : KindsAgree(d)

\* a listing with a symlink, a directory and a regular file
C36_WitnessChunkDirs ==
    /\ phase = "mounted" /\ (mode = "cat" => \A r \in file_db : r.vdir => PureVdir(r))
    /\ request.op = "readdir" /\ request.offset = 0 /\ reply.kind = "dir"
    /\ \E i, j \in 1..Len(reply.val) :
          /\ reply.val[i].kind = "Symlink" /\ i > 2
          /\ reply.val[j].kind = "Directory" /\ j > 2

----------------------------------------------------------------------------
(* The chunk indices of a read of a CatFS *)

\* The read dispatched last came through a live handle that an open of the
\* same inode returned
ReadThroughOwnHandle ==
    /\ CatServing /\ request.op = "read"
    /\ <<request.fh, request.ino>> \in kernel_fds
    /\ request.fh \in DOMAIN file_handles

\* The offset and the size of the read after the clamp of CatFS::read
EffectiveOffset ==
    Min(request.offset, CatAttr(mirror, file_db, RequestRow).size)
EffectiveSize ==
    Min(request.size, CatAttr(mirror, file_db, RequestRow).size - EffectiveOffset)

\* Every chunk file of the inode of the read is at most blocksize bytes long
ChunksWithinBlocksize ==
    LET parts == ChunkRows(file_db, request.ino)
    IN  \A i \in 1..Len(parts) :
           MetaSize(NodeAt(mirror, parts[i].path)) <= config.blocksize

\* part_start through part_end lie inside the chunk list of the handle, and
\* the dispatcher found every one of them
PartsInside ==
    /\ config.blocksize > 0
    /\ LET part_start == EffectiveOffset \div config.blocksize
           part_end == (EffectiveOffset + EffectiveSize - 1) \div config.blocksize
       IN  /\ part_start <= part_end
           /\ part_end < Len(file_handles[request.fh])
    /\ reply.kind # "panic"

\* C37: in Cat, for a read with a non-zero effective size through a live
\* handle that an open of the same inode returned, when every chunk file of
\* the inode is at most blocksize bytes long, the chunk indices
\* part_start = offset / B through part_end = (offset + size - 1) / B all lie
\* inside the chunk list of the handle: the dispatcher never indexes past it
C37_PartsInside ==
    (ReadThroughOwnHandle /\ EffectiveSize > 0 /\ ChunksWithinBlocksize)
    => PartsInside

\* a read whose chunk index lies past the list of the handle: the dispatcher
\* panicked
C37_Witness ==
    /\ ReadThroughOwnHandle /\ EffectiveSize > 0 /\ ChunksWithinBlocksize
    /\ config.blocksize > 0
    /\ (EffectiveOffset + EffectiveSize - 1) \div config.blocksize
          >= Len(file_handles[request.fh])
    /\ reply.kind = "panic" /\ phase = "crashed"

\* C37 for the inodes whose directory holds chunk files only
C37_PartsInsideChunkDir ==
    (/\ ReadThroughOwnHandle /\ EffectiveSize > 0 /\ ChunksWithinBlocksize
     /\ PureVdir(RequestRow))
    => PartsInside

\* a read of the last of several chunks
C37_WitnessChunkDir ==
    /\ ReadThroughOwnHandle /\ EffectiveSize > 0 /\ ChunksWithinBlocksize
    /\ PureVdir(RequestRow)
    /\ Len(file_handles[request.fh]) > 1
    /\ (EffectiveOffset + EffectiveSize - 1) \div config.blocksize
          = Len(file_handles[request.fh]) - 1
    /\ reply.kind = "data"

----------------------------------------------------------------------------
(* The blocksize of a constructed filesystem *)

\* C38: every filesystem object that gets mounted has blocksize >= 1, so the
\* divisions by the blocksize in the scan of Split and in the read of Cat are
\* defined: the command line rejects the block size 0, and the construction
\* of a CatFS rejects a .scfs_config whose blocksize is 0
C38_BlocksizePositive ==
    phase \in {"mounted", "crashed"} => config.blocksize >= 1

\* a CatFS constructed from a config with the blocksize 0: the read of one
\* byte divides by it
C38_Witness ==
    /\ CatServing /\ config.blocksize = 0
    /\ FromJson(ConfigText(mirror)) = Ok([blocksize |-> 0])
    /\ request.op = "read" /\ request.size > 0
    /\ reply.kind = "panic" /\ phase = "crashed"

\* The command line's part for the number 0 as it is written: it is an Err
C38_ZeroRejected ==
    (/\ Converted
     /\ NumberPart(cli.input) # <<>>
     /\ \A i \in 1..Len(NumberPart(cli.input)) : NumberPart(cli.input)[i] = 48)
    => cli.result.kind = "err"

\* 00K was rejected
C38_WitnessZero ==
    /\ Converted
    /\ cli.input = <<48, 48, 75>>
    /\ cli.result = QErr("Base may not be zero or negative")

----------------------------------------------------------------------------
(* The kind of the mount's root *)

\* getattr(ROOT) reports a directory, and the row of ROOT is no vdir
RootIsDirectory ==
    /\ LET rep == Getattr(mode, mirror, file_db, config, config_json, INO_ROOT)
       IN  rep.kind = "attr" /\ rep.val.kind = "Directory"
    /\ \A r \in file_db : r.ino = INO_ROOT => ~r.vdir

\* C39: the mount's root is always presented as a directory: in both modes
\* and for every mirror that mounts, getattr(ROOT) reports the kind Directory
\* and the row of ROOT is never marked vdir, also when chunk-named regular
\* files lie directly in the root of a Cat mirror
C39_RootIsDirectory == Scanned => RootIsDirectory

\* getattr(ROOT) of a CatFS with a chunk file in the root of its mirror
C39_Witness ==
    /\ CatServing
    /\ request.op = "getattr" /\ request.ino = INO_ROOT
    /\ reply.kind = "attr" /\ reply.val.kind = "RegularFile"
    /\ RequestRow.vdir
    /\ \E c \in file_db : c.parent_ino = INO_ROOT /\ IsChunkName(c.file_name)

\* The root of the mirror is a directory that holds no regular file itself
\* (Cat: but the config file)
PlainRoot ==
    /\ NodeAt(mirror, MIRROR).kind = "dir"
    /\ mode = "cat" =>
          \A n \in mirror :
             (Len(n.path) = Len(MIRROR) + 1 /\ n.kind = "file")
             => FileName(n.path) = CONFIG_FILE_NAME

\* C39 for the mirrors with such a root
C39_PlainRootIsDirectory == (Scanned /\ PlainRoot) => RootIsDirectory

\* getattr(ROOT) answered for a root that holds a chunk directory (Cat) or a
\* file (Split)
C39_WitnessPlain ==
    /\ Scanned /\ PlainRoot
    /\ request.op = "getattr" /\ request.ino = INO_ROOT
    /\ reply.kind = "attr" /\ reply.val.kind = "Directory"
    /\ \E c \in file_db : c.parent_ino = INO_ROOT /\ c.vdir

====
